---- MODULE Spec2Model ----
(***************************************************************************)
(* Model of the rbm-sms Telegram bot: the phone number detector, the SMS   *)
(* matcher and the request / check orchestration around them.              *)
(*                                                                         *)
(* Strings are sequences of one-character strings, so that the regular     *)
(* expressions and the slice / substring calls of the source are computed  *)
(* character by character.                                                 *)
(***************************************************************************)
EXTENDS Integers, Sequences, FiniteSets, TLC

VARIABLES
  text, detected, dpc,                 \* detectPhoneNumbers: input, output, position
  raw, normalized, npc,                \* normalizePhoneNumber: input, output, position
  formatted,                           \* formatPhoneNumber: output
  smsData, smsData0, phoneNumber,      \* matcher: caller's array, its value before the call, target
  matching, found, mpc,                \* matcher: findAll's result, findOne's result, position
  users,                               \* durable store: the users table
  cookieJar,                           \* durable store: the session cookies of the SMS domain
  cmdRequests,                         \* activeSmsRequests of the CommandController's SmsService
  botRequests,                         \* activeSmsRequests of the Bot's SmsService (MessageController)
  now,                                 \* Date.now(), in milliseconds
  lastEvent,                           \* the inbound event handled by the last step, and its reply
  lastCheck,                           \* the result of the last checkSmsViaApi
  handling,                            \* the inbound event being handled when calls can fail
  row, startBalance,                   \* the contended row of the users table; its first balance
  activeSmsRequests,                   \* the registry that concurrent handlers share
  run,                                 \* the handlers in flight: operation, position, locals
  retrying,                            \* one call of a storage operation, retried or not
  cookieString, cookieTable, cookieHeader, \* cookies: the string saved, the table, the string read
  cpc                                  \* cookies: position

detVars  == <<text, detected, dpc>>
normVars == <<raw, normalized, npc, formatted>>
matVars  == <<smsData, smsData0, phoneNumber, matching, found, mpc>>
botVars  == <<users, cookieJar, cmdRequests, botRequests, now, lastEvent, lastCheck>>
errVars  == <<handling>>
storeVars == <<row, startBalance, activeSmsRequests, run>>
retryVars == <<retrying>>
cookieVars == <<cookieString, cookieTable, cookieHeader, cpc>>
extVars  == <<storeVars, retryVars, cookieVars>>
vars     == <<detVars, normVars, matVars, botVars, errVars, extVars>>

-----------------------------------------------------------------------------
(* Characters and strings *)

Digits == {"0", "1", "2", "3", "4", "5", "6", "7", "8", "9"}
D19    == Digits \ {"0"}
D29    == Digits \ {"0", "1"}
D39    == Digits \ {"0", "1", "2"}
D69    == {"6", "7", "8", "9"}
WS     == {" "}
SEP    == {"-", ".", " "}

\* the value JavaScript's null is modelled by: no string of characters equals it
NULL == <<"null">>

Rep(c, n) == [i \in 1..n |-> c]

slice(s, n) == IF n >= Len(s) THEN <<>> ELSE SubSeq(s, n + 1, Len(s))

sliceLast(s, n) == IF n >= Len(s) THEN s ELSE SubSeq(s, Len(s) - n + 1, Len(s))

startsWith(s, p) == Len(s) >= Len(p) /\ SubSeq(s, 1, Len(p)) = p

includes(list, x) == \E i \in 1..Len(list) : list[i] = x

-----------------------------------------------------------------------------
(* Regular expressions: a pattern is a set of alternatives, an alternative  *)
(* a sequence of quantified character classes; an optional group is        *)
(* written as the two alternatives with and without it.                    *)

It(c, lo, hi) == [cls |-> c, lo |-> lo, hi |-> hi]
One(c) == It(c, 1, 1)
Opt(c) == It(c, 0, 1)

RECURSIVE MatchItems(_, _, _, _)
MatchItems(items, i, s, pos) ==
  IF i > Len(items) THEN pos = Len(s) + 1
  ELSE \E k \in items[i].lo .. items[i].hi :
         /\ pos + k - 1 <= Len(s)
         /\ \A j \in pos .. (pos + k - 1) : s[j] \in items[i].cls
         /\ MatchItems(items, i + 1, s, pos + k)

\* RegExp.prototype.test for an anchored pattern (^...$)
regexTest(pattern, s) == \E alt \in pattern : MatchItems(alt, 1, s, 1)

PAT_US_TAIL ==
  << Opt({"("}), It(Digits, 3, 3), Opt({")"}), Opt(SEP),
     It(Digits, 3, 3), Opt(SEP), It(Digits, 4, 4) >>

\* /^(\+?1[-.\s]?)?\(?([0-9]{3})\)?[-.\s]?([0-9]{3})[-.\s]?([0-9]{4})$/
PAT_US == { PAT_US_TAIL, << Opt({"+"}), One({"1"}), Opt(SEP) >> \o PAT_US_TAIL }

\* /^(\+[1-9]\d{1,3}[-.\s]?)([0-9]{6,14})$/
PAT_INTL == { << One({"+"}), One(D19), It(Digits, 1, 3), Opt(SEP), It(Digits, 6, 14) >> }

\* faulty variant of PAT_GENERIC: {3,14} for {6,14}
PAT_GENERIC_Short ==
  { << It(Digits, 3, 14) >>,
    << Opt({"+"}), One(D19), It(Digits, 0, 3), Opt(SEP), It(Digits, 3, 14) >> }

\* /^(\+?[1-9]\d{0,3}[-.\s]?)?([0-9]{6,14})$/
PAT_GENERIC ==
  { << It(Digits, 6, 14) >>,
    << Opt({"+"}), One(D19), It(Digits, 0, 3), Opt(SEP), It(Digits, 6, 14) >> }

PAT_BD_TAIL == << Opt({"0"}), One({"1"}), One(D39), It(Digits, 8, 8) >>

\* /^(\+?880[-.\s]?)?0?1[3-9]\d{8}$/
PAT_BD ==
  { PAT_BD_TAIL,
    << Opt({"+"}), One({"8"}), One({"8"}), One({"0"}), Opt(SEP) >> \o PAT_BD_TAIL }

PAT_IN_TAIL == << One(D69), It(Digits, 9, 9) >>

\* /^(\+?91[-.\s]?)?[6-9]\d{9}$/
PAT_IN == { PAT_IN_TAIL, << Opt({"+"}), One({"9"}), One({"1"}), Opt(SEP) >> \o PAT_IN_TAIL }

PAT_UK_TAIL == << Opt({"0"}), One(D19), It(Digits, 8, 9) >>

\* /^(\+?44[-.\s]?)?0?[1-9]\d{8,9}$/
PAT_UK == { PAT_UK_TAIL, << Opt({"+"}), One({"4"}), One({"4"}), Opt(SEP) >> \o PAT_UK_TAIL }

\* /^\d{10,15}$/
PAT_NUMERIC == { << It(Digits, 10, 15) >> }

PHONE_PATTERNS ==
  << PAT_US, PAT_INTL, PAT_GENERIC, PAT_BD, PAT_IN, PAT_UK, PAT_NUMERIC >>

-----------------------------------------------------------------------------
(* PhoneNumberDetector *)

\* clean.match(/^[2-9]\d{9}$/) and the other anchored tests of normalizePhoneNumber
RE_US10 == { << One(D29), It(Digits, 9, 9) >> }
RE_US11 == { << One({"1"}), One(D29), It(Digits, 9, 9) >> }
\* faulty variant of RE_BD11: every 11-digit number with leading 01 is Bangladesh local
RE_BD11_Any01 == { << One({"0"}), One({"1"}), It(Digits, 9, 9) >> }
RE_BD11 == { << One({"0"}), One({"1"}), One(D39), It(Digits, 8, 8) >> }
RE_BD13 == { << One({"8"}), One({"8"}), One({"0"}), One({"1"}), One(D39), It(Digits, 8, 8) >> }
RE_IN10 == { << One(D69), It(Digits, 9, 9) >> }
RE_IN12 == { << One({"9"}), One({"1"}), One(D69), It(Digits, 9, 9) >> }

\* phoneNumber.replace(/[^\d+]/g, '')
stripNonDigitPlus(s) == SelectSeq(s, LAMBDA c : c \in Digits \cup {"+"})

\* faulty variant of normalizePhoneNumber: the US/Canada rule returns `1${clean}`
normalizeUsWithoutPlus(pn) ==
  LET clean == stripNonDigitPlus(pn) IN
  IF startsWith(clean, <<"+">>) THEN clean
  ELSE IF Len(clean) = 10 /\ regexTest(RE_US10, clean) THEN <<"1">> \o clean
  ELSE IF Len(clean) = 11 /\ startsWith(clean, <<"1">>) /\ regexTest(RE_US11, clean)
       THEN <<"+">> \o clean
  ELSE IF Len(clean) = 11 /\ startsWith(clean, <<"0", "1">>) /\ regexTest(RE_BD11, clean)
       THEN <<"+", "8", "8", "0">> \o slice(clean, 1)
  ELSE IF Len(clean) = 13 /\ startsWith(clean, <<"8", "8", "0">>) /\ regexTest(RE_BD13, clean)
       THEN <<"+">> \o clean
  ELSE IF Len(clean) = 10 /\ regexTest(RE_IN10, clean) THEN <<"+", "9", "1">> \o clean
  ELSE IF Len(clean) = 12 /\ startsWith(clean, <<"9", "1">>) /\ regexTest(RE_IN12, clean)
       THEN <<"+">> \o clean
  ELSE IF Len(clean) >= 10 /\ Len(clean) <= 15
       THEN (IF startsWith(clean, <<"+">>) THEN clean ELSE <<"+">> \o clean)
  ELSE NULL

\* PhoneNumberDetector.normalizePhoneNumber
normalizePhoneNumber(pn) ==
  LET clean == stripNonDigitPlus(pn) IN
  IF startsWith(clean, <<"+">>) THEN clean
  ELSE IF Len(clean) = 10 /\ regexTest(RE_US10, clean) THEN <<"+", "1">> \o clean
  ELSE IF Len(clean) = 11 /\ startsWith(clean, <<"1">>) /\ regexTest(RE_US11, clean)
       THEN <<"+">> \o clean
  ELSE IF Len(clean) = 11 /\ startsWith(clean, <<"0", "1">>) /\ regexTest(RE_BD11, clean)
       THEN <<"+", "8", "8", "0">> \o slice(clean, 1)
  ELSE IF Len(clean) = 13 /\ startsWith(clean, <<"8", "8", "0">>) /\ regexTest(RE_BD13, clean)
       THEN <<"+">> \o clean
  ELSE IF Len(clean) = 10 /\ regexTest(RE_IN10, clean) THEN <<"+", "9", "1">> \o clean
  ELSE IF Len(clean) = 12 /\ startsWith(clean, <<"9", "1">>) /\ regexTest(RE_IN12, clean)
       THEN <<"+">> \o clean
  ELSE IF Len(clean) >= 10 /\ Len(clean) <= 15
       THEN (IF startsWith(clean, <<"+">>) THEN clean ELSE <<"+">> \o clean)
  ELSE NULL

isValidPhoneNumber(pn) ==
  LET n == normalizePhoneNumber(pn) IN
  n # NULL /\ Len(n) >= 11 /\ Len(n) <= 16

\* the class [^\d+()-.\s]: the range )-. keeps ) * + , - . besides digits, ( and whitespace
\* String.prototype.substring(start, end), faulty variant: end taken as the last index
substringInclusive(s, start, end) ==
  SubSeq(s, start + 1, IF end + 1 > Len(s) THEN Len(s) ELSE end + 1)

\* String.prototype.substring(start, end)
substring(s, start, end) == SubSeq(s, start + 1, IF end > Len(s) THEN Len(s) ELSE end)

\* PhoneNumberDetector.formatPhoneNumber
formatPhoneNumber(pn) ==
  LET n == normalizePhoneNumber(pn) IN
  IF n = NULL THEN pn
  ELSE IF startsWith(n, <<"+", "1">>) /\ Len(n) = 12
       THEN LET num == slice(n, 2) IN
            <<"+", "1", " ", "(">> \o substring(num, 0, 3) \o <<")", " ">>
              \o substring(num, 3, 6) \o <<"-">> \o slice(num, 6)
  ELSE IF startsWith(n, <<"+", "8", "8", "0">>) /\ Len(n) = 14
       THEN LET num == slice(n, 4) IN
            <<"+", "8", "8", "0", " ">> \o substring(num, 0, 4) \o <<"-">> \o slice(num, 4)
  ELSE IF startsWith(n, <<"+", "9", "1">>) /\ Len(n) = 13
       THEN LET num == slice(n, 3) IN
            <<"+", "9", "1", " ">> \o substring(num, 0, 5) \o <<"-">> \o slice(num, 5)
  ELSE n

KeptChars == Digits \cup {"+", "(", ")", "*", ",", "-", "."} \cup WS

\* word.replace(/[^\d+()-.\s]/g, '')
cleanWordOf(word) == SelectSeq(word, LAMBDA c : c \in KeptChars)

\* text.split(/\s+/)
RECURSIVE splitFrom(_, _, _, _)
splitFrom(s, i, cur, acc) ==
  IF i > Len(s) THEN Append(acc, cur)
  ELSE IF s[i] \in WS
       THEN (IF i > 1 /\ s[i - 1] \in WS
             THEN splitFrom(s, i + 1, cur, acc)
             ELSE splitFrom(s, i + 1, <<>>, Append(acc, cur)))
       ELSE splitFrom(s, i + 1, Append(cur, s[i]), acc)

splitWords(s) == splitFrom(s, 1, <<>>, <<>>)

\* faulty variant of firstPattern: only the first pattern of the list is tried
firstPatternOnly(patterns, w) == IF regexTest(patterns[1], w) THEN 1 ELSE 0

\* index of the first pattern of the list that matches, 0 when none does
firstPattern(patterns, w) ==
  IF \E p \in 1..Len(patterns) : regexTest(patterns[p], w)
  THEN CHOOSE p \in 1..Len(patterns) :
         /\ regexTest(patterns[p], w)
         /\ \A q \in 1..(p - 1) : ~regexTest(patterns[q], w)
  ELSE 0

\* the loop over the words, with the patterns tried in the order of the list
RECURSIVE detectWith(_, _, _, _)
detectWith(patterns, words, i, phoneNumbers) ==
  IF i > Len(words) THEN phoneNumbers
  ELSE LET cleanWord == cleanWordOf(words[i])
           n == normalizePhoneNumber(cleanWord)
       IN IF firstPattern(patterns, cleanWord) # 0
             /\ n # NULL /\ ~includes(phoneNumbers, n)
          THEN detectWith(patterns, words, i + 1, Append(phoneNumbers, n))
          ELSE detectWith(patterns, words, i + 1, phoneNumbers)

detectWords(words, i, phoneNumbers) == detectWith(PHONE_PATTERNS, words, i, phoneNumbers)

detectPhoneNumbers(t) == detectWords(splitWords(t), 1, <<>>)

\* the pattern list in another order: perm[i] is the old position of the new i-th pattern
permuted(patterns, perm) == [i \in 1..Len(patterns) |-> patterns[perm[i]]]

\* the rotations of the list and its reversal
PatternOrders ==
  LET n == Len(PHONE_PATTERNS) IN
  { [i \in 1..n |-> ((i + k - 1) % n) + 1] : k \in 0..(n - 1) }
    \cup { [i \in 1..n |-> n + 1 - i] }

-----------------------------------------------------------------------------
(* EnhancedSmsService: the SMS matcher.  An SMS record carries the fields  *)
(* the matcher reads: number, date and text.                               *)

\* sms.number.replace(/[^\d]/g, '')
digitsOnly(s) == SelectSeq(s, LAMBDA c : c \in Digits)

\* new Date(sms.date).getTime(): dates are numbered in the order of their instants,
\* and the two highest-numbered date strings denote the same instant
SameInstantFrom == 2
getTime(d) == IF d > SameInstantFrom THEN SameInstantFrom ELSE d

\* faulty variant of the comparator: oldest first
byDateAsc(a, b) == getTime(a.date) - getTime(b.date)

\* the comparator (a, b) => new Date(b.date).getTime() - new Date(a.date).getTime()
byDateDesc(a, b) == getTime(b.date) - getTime(a.date)

\* Array.prototype.sort (stable): the elements are inserted from the last to the first,
\* and x goes in front of the first element the comparator does not put before it
RECURSIVE insertSorted(_, _)
insertSorted(x, sorted) ==
  IF sorted = <<>> THEN <<x>>
  ELSE IF byDateDesc(x, Head(sorted)) <= 0
       THEN <<x>> \o sorted
       ELSE <<Head(sorted)>> \o insertSorted(x, Tail(sorted))

RECURSIVE sortFrom(_, _, _)
sortFrom(arr, i, sorted) ==
  IF i < 1 THEN sorted ELSE sortFrom(arr, i - 1, insertSorted(arr[i], sorted))

sortByDateDesc(arr) == sortFrom(arr, Len(arr), <<>>)

\* strategy 1: exact match of the cleaned numbers
strategyExact(sms, cleanPhoneNumber) == digitsOnly(sms.number) = cleanPhoneNumber

\* strategy 2: match without one to three leading digits on either side
strategyCountryCode(sms, cleanPhoneNumber) ==
  LET smsNumber == digitsOnly(sms.number) IN
  \/ smsNumber = slice(cleanPhoneNumber, 1)
  \/ smsNumber = slice(cleanPhoneNumber, 2)
  \/ smsNumber = slice(cleanPhoneNumber, 3)
  \/ cleanPhoneNumber = slice(smsNumber, 1)
  \/ cleanPhoneNumber = slice(smsNumber, 2)
  \/ cleanPhoneNumber = slice(smsNumber, 3)

digitCounts == <<10, 9, 8, 7>>

\* strategy 3: match of the last 10, 9, 8 or 7 digits
strategySuffix(sms, cleanPhoneNumber) ==
  LET smsNumber == digitsOnly(sms.number) IN
  \E c \in 1..Len(digitCounts) :
    /\ Len(smsNumber) >= digitCounts[c]
    /\ Len(cleanPhoneNumber) >= digitCounts[c]
    /\ sliceLast(smsNumber, digitCounts[c]) = sliceLast(cleanPhoneNumber, digitCounts[c])

RECURSIVE countFromEnd(_, _, _)
countFromEnd(str1, str2, i) ==
  IF i >= (IF Len(str1) < Len(str2) THEN Len(str1) ELSE Len(str2)) THEN 0
  ELSE (IF str1[Len(str1) - i] = str2[Len(str2) - i] THEN 1 ELSE 0)
         + countFromEnd(str1, str2, i + 1)

\* faulty variant of the threshold: 0.95 for 0.85
similarityAbove95(str1, str2) ==
  LET maxLength == IF Len(str1) > Len(str2) THEN Len(str1) ELSE Len(str2) IN
  IF maxLength = 0 THEN TRUE
  ELSE countFromEnd(str1, str2, 0) * 100 > 95 * maxLength

\* calculateSimilarity(str1, str2) > 0.85, in hundredths
similarityAbove85(str1, str2) ==
  LET maxLength == IF Len(str1) > Len(str2) THEN Len(str1) ELSE Len(str2) IN
  IF maxLength = 0 THEN TRUE
  ELSE countFromEnd(str1, str2, 0) * 100 > 85 * maxLength

\* strategy 4 (findMatchingSms only): fuzzy match
strategyFuzzy(sms, cleanPhoneNumber) == similarityAbove85(cleanPhoneNumber, digitsOnly(sms.number))

strategy(k, sms, cleanPhoneNumber) ==
  CASE k = 1 -> strategyExact(sms, cleanPhoneNumber)
    [] k = 2 -> strategyCountryCode(sms, cleanPhoneNumber)
    [] k = 3 -> strategySuffix(sms, cleanPhoneNumber)
    [] OTHER -> strategyFuzzy(sms, cleanPhoneNumber)

sameTriple(a, b) == a.number = b.number /\ a.date = b.date /\ a.text = b.text

\* faulty variant of pushNew: every match is pushed
pushNewAll(matches, j, matchingMessages) ==
  matchingMessages \o SubSeq(matches, j, Len(matches))

\* matches.forEach(match => { if (!matchingMessages.some(...)) matchingMessages.push(match) })
RECURSIVE pushNew(_, _, _)
pushNew(matches, j, matchingMessages) ==
  IF j > Len(matches) THEN matchingMessages
  ELSE IF \E e \in 1..Len(matchingMessages) : sameTriple(matchingMessages[e], matches[j])
       THEN pushNew(matches, j + 1, matchingMessages)
       ELSE pushNew(matches, j + 1, Append(matchingMessages, matches[j]))

\* Faulty variants of the break below: no break at all, a break after the
\* country-code strategy only, and a break after the exact strategy only.
stopSearchNever(k, matchingMessages) == FALSE

stopSearchAfterSecond(k, matchingMessages) == Len(matchingMessages) > 0 /\ k - 1 = 1

stopSearchAfterFirst(k, matchingMessages) == Len(matchingMessages) > 0 /\ k - 1 < 1

\* if (matchingMessages.length > 0 && i < 2) break;   (i counts from 0 there, k from 1 here)
stopSearch(k, matchingMessages) == Len(matchingMessages) > 0 /\ k - 1 < 2

RECURSIVE applyStrategies(_, _, _, _)
applyStrategies(k, sortedData, cleanPhoneNumber, matchingMessages) ==
  IF k > 3 THEN matchingMessages
  ELSE LET matches == SelectSeq(sortedData, LAMBDA sms : strategy(k, sms, cleanPhoneNumber))
           collected == pushNew(matches, 1, matchingMessages)
       IN IF stopSearch(k, collected) THEN collected
          ELSE applyStrategies(k + 1, sortedData, cleanPhoneNumber, collected)

findAllMatchingSms(data, pn) ==
  sortByDateDesc(applyStrategies(1, sortByDateDesc(data), digitsOnly(pn), <<>>))

NullSms == [number |-> NULL, date |-> 0, text |-> NULL]

\* sortedData.find(strategy) for the strategies 1..4 in turn
RECURSIVE findFirst(_, _, _)
findFirst(k, sortedData, cleanPhoneNumber) ==
  IF k > 4 THEN NullSms
  ELSE LET matches == SelectSeq(sortedData, LAMBDA sms : strategy(k, sms, cleanPhoneNumber))
       IN IF matches # <<>> THEN Head(matches)
          ELSE findFirst(k + 1, sortedData, cleanPhoneNumber)

\* faulty variant of findMatchingSms: the records are searched in the order given
findMatchingSmsUnsorted(data, pn) == findFirst(1, data, digitsOnly(pn))

findMatchingSms(data, pn) == findFirst(1, sortByDateDesc(data), digitsOnly(pn))

-----------------------------------------------------------------------------
(* The bot: users, access control, SMS requests and SMS checks.  Money is   *)
(* counted in cents, time in milliseconds.                                 *)

SERVER_1 == "server1"
SERVER_2 == "server2"

SMS_PRICE == 50                      \* 0.50
SMS_TTL   == 10 * 60 * 1000          \* 10 minutes expiry

ALLOWED_COMMANDS_FOR_UNAUTHORIZED == {"start", "info"}
ADMIN_ONLY_COMMANDS == {"authorize", "ban"}

ADMIN_NAME == "itsahrabbix"

\* user.username === 'itsahrabbix' || user.role === 'admin' || user.role === 'super_admin'
isAdmin(user) ==
  user.username = ADMIN_NAME \/ user.role = "admin" \/ user.role = "super_admin"

\* AuthMiddleware.checkAccess: "ok", or the refusal that is sent to the user
checkAccess(cmd, user) ==
  IF cmd \in ALLOWED_COMMANDS_FOR_UNAUTHORIZED THEN "ok"
  ELSE IF cmd \in ADMIN_ONLY_COMMANDS THEN (IF isAdmin(user) THEN "ok" ELSE "adminOnly")
  ELSE IF user.isBanned THEN "banned"
  ELSE IF ~user.isAuthorized THEN "unauthorized"
  ELSE "ok"

\* User.ban
ban(user) == [user EXCEPT !.isBanned = TRUE, !.status = "banned"]

\* User.unban
unban(user) ==
  [user EXCEPT !.isBanned = FALSE,
               !.status = IF user.isAuthorized THEN "authorized" ELSE "pending"]

\* User.authorize
authorize(user) ==
  [user EXCEPT !.isAuthorized = TRUE,
               !.status = IF user.isBanned THEN "banned" ELSE "authorized"]

\* faulty variant: the funds always suffice
canDeductAlways(user, amount) == TRUE

\* User.deductBalance: the new balance, or the old one when the funds are insufficient
canDeduct(user, amount) == ~(user.balance < amount)
deductBalance(user, amount) ==
  IF canDeduct(user, amount) THEN [user EXCEPT !.balance = user.balance - amount] ELSE user

requestKey(pn, server) == <<pn, server>>

mapSet(m, k, v) == [x \in DOMAIN m \cup {k} |-> IF x = k THEN v ELSE m[x]]
mapDelete(m, k) == [x \in DOMAIN m \ {k} |-> m[x]]

\* EnhancedSmsService.requestSms: the registry after the call; SERVER_1 throws instead
requestSmsThrows(server) == server = SERVER_1

requestSms(requests, userId, pn, server, t) ==
  mapSet(requests, requestKey(pn, server),
         [userId |-> userId, phoneNumber |-> pn, server |-> server,
          status |-> "pending", expiresAt |-> t + SMS_TTL])

\* SmsService.requestSms: defaults to Server 1
defaultServer == SERVER_1

\* EnhancedSmsService.getUserActiveSmsRequests
getUserActiveSmsRequests(requests, userId, t) ==
  { k \in DOMAIN requests :
      /\ requests[k].userId = userId
      /\ requests[k].status = "pending"
      /\ requests[k].expiresAt > t }

NoSms == [content |-> NULL, count |-> 0]

\* fetchSmsFromRealApi: "auth" when an authentication error is re-thrown, else the
\* SMS found (NoSms for null).  resp is the upstream's answer, data its JSON body.
fetchSmsFromRealApi(cookies, resp, data, pn) ==
  IF cookies = "none" THEN [thrown |-> "auth", fetches |-> 0, sms |-> NoSms]
  ELSE IF resp \in {"401", "403"} THEN [thrown |-> "auth", fetches |-> 1, sms |-> NoSms]
  ELSE IF resp \in {"500", "networkError", "notArray"}
       THEN [thrown |-> "none", fetches |-> 1, sms |-> NoSms]
  ELSE LET matchingSmsMessages == findAllMatchingSms(data, pn) IN
       IF Len(matchingSmsMessages) > 0
       THEN [thrown |-> "none", fetches |-> 1,
             sms |-> [content |-> matchingSmsMessages[1].text,
                      count |-> Len(matchingSmsMessages)]]
       ELSE [thrown |-> "none", fetches |-> 1, sms |-> NoSms]

\* requestStatus is smsRequest.status when the call returns ("none": no request was found)
checkResult(upstream, fetches, success, message, charged, smsContent, quoted, requestStatus) ==
  [upstream |-> upstream, fetches |-> fetches, success |-> success, message |-> message,
   charged |-> charged, smsContent |-> smsContent, quoted |-> quoted,
   requestStatus |-> requestStatus]

upstreamOf(cookies, resp) == IF cookies = "none" THEN "noCookies" ELSE resp

\* if (smsRequest.expiresAt.getTime() < Date.now())
isExpiredNever(smsRequest, t) == FALSE

isExpired(smsRequest, t) == smsRequest.expiresAt < t

\* EnhancedSmsService.checkSmsViaApi: the registry, the users table and the result after it
\* lookup is the outcome of userService.getUserById after the payment: "ok" or "throws"
checkSmsViaApi(requests, usrs, cookies, t, pn, server, resp, data, lookup) ==
  LET key == requestKey(pn, server) IN
  IF key \notin DOMAIN requests
  THEN [requests |-> requests, users |-> usrs,
        check |-> checkResult("none", 0, FALSE, "noActiveRequest", "undefined", NULL, NULL, "none")]
  ELSE IF isExpired(requests[key], t)
  THEN [requests |-> mapDelete(requests, key), users |-> usrs,
        check |-> checkResult("none", 0, FALSE, "expired", "undefined", NULL, NULL, "expired")]
  ELSE IF server = SERVER_1
  THEN [requests |-> requests, users |-> usrs,
        check |-> checkResult("none", 0, FALSE, "notImplemented", "false", NULL, NULL,
                           requests[key].status)]
  ELSE
    LET f   == fetchSmsFromRealApi(cookies, resp, data, pn)
        up  == upstreamOf(cookies, resp)
        uid == requests[key].userId
    IN
    IF f.thrown = "auth"
    THEN [requests |-> requests, users |-> usrs,
          check |-> checkResult(up, f.fetches, FALSE, "errorTryAgain", "undefined", NULL, NULL,
                             requests[key].status)]
    ELSE IF f.sms = NoSms
    THEN [requests |-> requests, users |-> usrs,
          check |-> checkResult(up, f.fetches, FALSE, "noSmsFound", "false", NULL, NULL,
                             requests[key].status)]
    ELSE IF ~canDeduct(usrs[uid], SMS_PRICE)
    THEN [requests |-> requests, users |-> usrs,
          check |-> checkResult(up, f.fetches, FALSE, "insufficientBalance", "undefined",
                                NULL, f.sms.content, requests[key].status)]
    ELSE IF lookup = "throws"
    THEN [requests |-> [requests EXCEPT ![key].status = "received"],
          users |-> [usrs EXCEPT ![uid] = deductBalance(usrs[uid], SMS_PRICE)],
          check |-> checkResult(up, f.fetches, FALSE, "errorTryAgain", "undefined", NULL, NULL,
                             "received")]
    ELSE [requests |-> mapDelete(requests, key),
          users |-> [usrs EXCEPT ![uid] = deductBalance(usrs[uid], SMS_PRICE)],
          check |-> checkResult(up, f.fetches, TRUE, "received", "true", f.sms.content, NULL,
                             "received")]

-----------------------------------------------------------------------------
(* Inputs of the detector *)

MaxRun  == 16      \* longest run of filler digits in a generated token
MinTotal == 8      \* shortest generated input of normalizePhoneNumber
MaxTotal == 16     \* longest generated input of normalizePhoneNumber

FillDigits == {"0", "7"}

S_Call == <<"C", "a", "l", "l">>
S_me   == <<"m", "e">>
S_at   == <<"a", "t">>
S_CallMeAt == S_Call \o <<" ">> \o S_me \o <<" ">> \o S_at \o <<" ">>
S_PleaseSendSmsTo ==
  <<"P", "l", "e", "a", "s", "e", " ", "s", "e", "n", "d", " ", "S", "M", "S", " ", "t", "o", " ">>

N_9876543210   == <<"9", "8", "7", "6", "5", "4", "3", "2", "1", "0">>
N_01712345678  == <<"0", "1", "7", "1", "2", "3", "4", "5", "6", "7", "8">>
N_p1234567890  == <<"+", "1", "2", "3", "4", "5", "6", "7", "8", "9", "0">>
N_p12345678900 == <<"+", "1", "2", "3", "4", "5", "6", "7", "8", "9", "0", "0">>

DetPrefixes ==
  { <<>>, <<"+">>, <<"+", "1">>, <<"1">>, <<"0", "1", "7">>, <<"0", "1", "2">>,
    <<"8", "8", "0", "1", "7">>, <<"+", "8", "8", "0">>, <<"9", "1">>, <<"+", "9", "1", "-">>,
    <<"6">>, <<"8">>, <<"9">>, <<"2">>, <<"4", "4">>, <<"(", "2">> }

DetSuffixes == { <<>>, <<"x">>, <<",">> }

GenTokens ==
  { p \o Rep(d, n) \o s : p \in DetPrefixes, d \in FillDigits, n \in 0..MaxRun, s \in DetSuffixes }

N_555_123_4567 == <<"5", "5", "5", "-", "1", "2", "3", "-", "4", "5", "6", "7">>
N_p1_234567    == <<"+", "1", "-", "2", "3", "4", "5", "6", "7">>
N_p1_23456     == <<"+", "1", "-", "2", "3", "4", "5", "6">>
N_98765s43210  == <<"9", "8", "7", "6", "5", "*", "4", "3", "2", "1", "0">>

DetTokens ==
  GenTokens
    \cup { N_9876543210, N_01712345678, N_p1234567890, N_p12345678900,
           N_555_123_4567, N_p1_234567, N_p1_23456, N_98765s43210 }

SecondTokens == { N_9876543210, <<"+", "1", "7", "7", "7", "7", "7", "7">>, S_me, <<>> }

DetTexts ==
  DetTokens
    \cup { S_CallMeAt \o t : t \in DetTokens }
    \cup { S_PleaseSendSmsTo \o t : t \in {N_p1234567890, N_9876543210} }
    \cup { t \o <<" ">> \o u : t \in DetTokens, u \in SecondTokens }

PadTo(p, d, total) == p \o Rep(d, total - Len(p))

NormPrefixes ==
  { <<>>, <<"0">>, <<"1">>, <<"0", "1">>, <<"0", "1", "3">>, <<"0", "1", "2">>, <<"0", "1", "9">>,
    <<"1", "0">>, <<"1", "1">>, <<"1", "2">>, <<"2">>, <<"5">>, <<"6">>, <<"9">>,
    <<"8", "8", "0">>, <<"8", "8", "0", "1", "3">>, <<"8", "8", "0", "1", "2">>, <<"8", "8", "0", "2">>,
    <<"9", "1">>, <<"9", "1", "6">>, <<"9", "1", "5">>,
    <<"(", "2">>, <<"0", "1", "7", "-">>, <<"2", "+">>, <<"1", "+", "3">>, <<"+">>, <<"+", "1">>,
    <<"+", "8", "8", "0">>, <<"+", "9", "1">>, <<"+", "4", "4">> }

NormInputs ==
  { PadTo(p, d, n) : p \in NormPrefixes, d \in FillDigits, n \in MinTotal..MaxTotal }
    \cup { N_9876543210, N_01712345678, N_p1234567890, N_p12345678900 }

-----------------------------------------------------------------------------
(* State machine of the detector: one call of detectPhoneNumbers *)

NoEvent == [kind |-> "none", user |-> 0, name |-> "none", text |-> <<>>, server |-> "none",
            reply |-> "none", listed |-> {}]
NoCheck == [upstream |-> "none", fetches |-> 0, success |-> FALSE, message |-> "none",
            charged |-> "undefined", smsContent |-> NULL, quoted |-> NULL,
            requestStatus |-> "none"]

BotIdle ==
  /\ users = <<>> /\ cookieJar = "none" /\ cmdRequests = <<>> /\ botRequests = <<>>
  /\ now = 0 /\ lastEvent = NoEvent /\ lastCheck = NoCheck

\* no inbound event is being handled
NoHandling ==
  [kind |-> "none", cmd |-> "none", pc |-> "idle", caught |-> "none", replies |-> 0,
   failed |-> FALSE]

HandIdle == handling = NoHandling

MaxHandlers == 2          \* handlers whose awaits interleave
Handlers == 1..MaxHandlers

\* a handler's locals: its operation, its position, the number it was given, the User
\* instance findByPk gave it, the handlers that were already working on its key when it
\* registered, whether its update was stored, and what it returned
NoRun ==
  [op |-> "none", pc |-> "idle", phoneNumber |-> NULL, user |-> NULL, during |-> {},
   paid |-> FALSE, result |-> "none"]

StoreIdle ==
  /\ row = NULL /\ startBalance = 0 /\ activeSmsRequests = <<>>
  /\ run = [h \in Handlers |-> NoRun]

NoRetrying ==
  [op |-> "none", pc |-> "idle", attempt |-> 0, slept |-> <<>>, errors |-> <<>>,
   thrown |-> "none"]

RetryIdle == retrying = NoRetrying

CookieIdle == cookieString = <<>> /\ cookieTable = <<>> /\ cookieHeader = <<>> /\ cpc = "idle"

ExtIdle == StoreIdle /\ RetryIdle /\ CookieIdle

DetIdle  == text = <<>> /\ detected = <<>> /\ dpc = "idle"
NormIdle == raw = <<>> /\ normalized = <<>> /\ npc = "idle" /\ formatted = <<>>
MatIdle  ==
  /\ smsData = <<>> /\ smsData0 = <<>> /\ phoneNumber = <<>>
  /\ matching = <<>> /\ found = NullSms /\ mpc = "idle"

InitDetect ==
  /\ text \in DetTexts
  /\ detected = <<>>
  /\ dpc = "start"
  /\ NormIdle /\ MatIdle /\ BotIdle /\ HandIdle /\ ExtIdle

Detect ==
  /\ dpc = "start"
  /\ detected' = detectPhoneNumbers(text)
  /\ dpc' = "done"
  /\ UNCHANGED <<text, normVars, matVars, botVars, errVars, extVars>>

\* detectPhoneNumbers with PHONE_PATTERNS in another order
DetectPermuted(perm) ==
  /\ dpc = "start"
  /\ detected' = detectWith(permuted(PHONE_PATTERNS, perm), splitWords(text), 1, <<>>)
  /\ dpc' = "permuted"
  /\ UNCHANGED <<text, normVars, matVars, botVars, errVars, extVars>>

NextDetect == Detect \/ \E perm \in PatternOrders : DetectPermuted(perm)

SpecDetect == InitDetect /\ [][NextDetect]_vars

(* State machine of normalizePhoneNumber *)

InitNorm ==
  /\ raw \in NormInputs
  /\ normalized = <<>>
  /\ formatted = <<>>
  /\ npc = "start"
  /\ DetIdle /\ MatIdle /\ BotIdle /\ HandIdle /\ ExtIdle

Normalize ==
  /\ npc = "start"
  /\ normalized' = normalizePhoneNumber(raw)
  /\ npc' = "done"
  /\ UNCHANGED <<raw, formatted, detVars, matVars, botVars, errVars, extVars>>

\* normalizePhoneNumber called on its own result
NormalizeAgain ==
  /\ npc = "done"
  /\ normalized # NULL
  /\ raw' = normalized
  /\ normalized' = normalizePhoneNumber(normalized)
  /\ npc' = "again"
  /\ UNCHANGED <<formatted, detVars, matVars, botVars, errVars, extVars>>

\* formatPhoneNumber(raw)
Format ==
  /\ npc = "start"
  /\ formatted' = formatPhoneNumber(raw)
  /\ npc' = "formatted"
  /\ UNCHANGED <<raw, normalized, detVars, matVars, botVars, errVars, extVars>>

NextNorm == Normalize \/ NormalizeAgain \/ Format

SpecNorm == InitNorm /\ [][NextNorm]_vars

-----------------------------------------------------------------------------
(* Claims about the detector *)

AllDigits(s) == \A i \in 1..Len(s) : s[i] \in Digits

IsBareIndia10(w) == Len(w) = 10 /\ AllDigits(w) /\ w[1] \in D69

PhoneLike(w) == firstPattern(PHONE_PATTERNS, cleanWordOf(w)) # 0

\* C4: detect on a text whose only phone-like token is a bare 10-digit number
\* starting with 6, 7, 8 or 9 returns exactly that number prefixed with +91.
C4_IndiaHeuristic ==
  dpc = "done" =>
    LET words == splitWords(text) IN
    \A i \in 1..Len(words) :
      (IsBareIndia10(words[i]) /\ \A j \in 1..Len(words) : j # i => ~PhoneLike(words[j]))
        => detected = << <<"+", "9", "1">> \o words[i] >>

\* C5: every number detect returns has between 11 and 16 characters.
C5_DetectedLength ==
  dpc = "done" => \A i \in 1..Len(detected) : Len(detected[i]) >= 11 /\ Len(detected[i]) <= 16

\* s holds n or more consecutive digits
HasDigitRun(s, n) ==
  \E i \in 1..(Len(s) - n + 1) : \A j \in i..(i + n - 1) : s[j] \in Digits

\* the number of digits in a token
DigitCount(w) == Len(SelectSeq(w, LAMBDA c : c \in Digits))

\* C14 as stated: a text without a run of 7 or more consecutive digits gives no number.
C14_NoSevenDigitRun ==
  (dpc = "done" /\ ~HasDigitRun(text, 7)) => detected = <<>>

\* C14 amended: a text in which no whitespace-separated token holds 7 or more digits in
\* total gives no number.
C14_FewDigitsPerToken ==
  (dpc = "done" /\ \A i \in 1..Len(splitWords(text)) : DigitCount(splitWords(text)[i]) < 7)
    => detected = <<>>

\* C14 witness: a token of six digits, which the generic pattern matches, gave no number
C14_Witness ==
  /\ dpc = "done"
  /\ text = Rep("7", 6)
  /\ regexTest(PAT_GENERIC, text)
  /\ detected = <<>>

\* the characters the claim C15 says are kept in a token
ClaimedKept == Digits \cup {"+", "(", ")", "-", "."} \cup WS

\* C15: characters outside digits, '+', '(', ')', '-', '.' and space do not matter:
\* detect returns for a text what it returns for the text without them.
C15_OtherCharactersIgnored ==
  dpc = "done" =>
    detected = detectPhoneNumbers(SelectSeq(text, LAMBDA c : c \in ClaimedKept))

\* C18: normalize is idempotent: normalizing a non-null result gives that result again.
C18_NormalizeIdempotent == npc = "again" => normalized = raw

\* C18 witness: a bare US number was normalized to +1 and its digits, and that result was
\* normalized again
C18_Witness ==
  /\ npc = "again"
  /\ startsWith(raw, <<"+", "1", "2">>)
  /\ Len(raw) = 12
  /\ normalized = raw

\* s is the country prefix cc followed by exactly ten digits
TenDigitsAfter(s, cc) ==
  /\ startsWith(s, cc)
  /\ Len(s) = Len(cc) + 10
  /\ AllDigits(slice(s, Len(cc)))

CC_US == <<"+", "1">>
CC_BD == <<"+", "8", "8", "0">>
CC_IN == <<"+", "9", "1">>

\* the digits i..j of the national number that follows the prefix cc
National(s, cc, i, j) == SubSeq(s, Len(cc) + i, Len(cc) + j)

\* C19: format renders +1, +880 and +91 numbers of ten digits with the template of their
\* country and returns every other normalized number unchanged.
C19_FormatTemplates ==
  npc = "formatted" =>
    /\ TenDigitsAfter(raw, CC_US) =>
         formatted = <<"+", "1", " ", "(">> \o National(raw, CC_US, 1, 3) \o <<")", " ">>
                       \o National(raw, CC_US, 4, 6) \o <<"-">> \o National(raw, CC_US, 7, 10)
    /\ TenDigitsAfter(raw, CC_BD) =>
         formatted = <<"+", "8", "8", "0", " ">> \o National(raw, CC_BD, 1, 4) \o <<"-">>
                       \o National(raw, CC_BD, 5, 10)
    /\ TenDigitsAfter(raw, CC_IN) =>
         formatted = <<"+", "9", "1", " ">> \o National(raw, CC_IN, 1, 5) \o <<"-">>
                       \o National(raw, CC_IN, 6, 10)
    /\ ( /\ startsWith(raw, <<"+">>) /\ AllDigits(Tail(raw))
         /\ ~TenDigitsAfter(raw, CC_US) /\ ~TenDigitsAfter(raw, CC_BD)
         /\ ~TenDigitsAfter(raw, CC_IN) ) => formatted = raw
    /\ raw = N_p12345678900 =>
         formatted = <<"+", "1", " ", "(", "2", "3", "4", ")", " ", "5", "6", "7", "-",
                       "8", "9", "0", "0">>

\* C19 witness: a Bangladesh number has been formatted as +880 xxxx-xxxxxx
C19_Witness ==
  /\ npc = "formatted"
  /\ TenDigitsAfter(raw, CC_BD)
  /\ Len(formatted) = 16
  /\ formatted[5] = " " /\ formatted[10] = "-"

\* the words of a text that some pattern matches, after cleaning
MatchedBy(w) == { p \in 1..Len(PHONE_PATTERNS) : regexTest(PHONE_PATTERNS[p], cleanWordOf(w)) }

\* what the words contribute, in order: normalize(cleaned word) for every word that some
\* pattern matches and that normalizes, each number once
RECURSIVE Contributions(_, _)
Contributions(words, acc) ==
  IF words = <<>> THEN acc
  ELSE LET n == normalizePhoneNumber(cleanWordOf(Head(words)))
           counts == MatchedBy(Head(words)) # {} /\ n # NULL
                       /\ \A i \in 1..Len(acc) : acc[i] # n
       IN Contributions(Tail(words), IF counts THEN Append(acc, n) ELSE acc)

\* C29: what detect returns does not depend on which pattern matched a word or on the
\* order of the pattern list: a word contributes normalize(cleaned word) exactly when at
\* least one pattern matches it and normalize is non-null.
C29_PatternOrderIrrelevant ==
  dpc \in {"done", "permuted"} => detected = Contributions(splitWords(text), <<>>)

\* C29 witness: the patterns were tried in another order on a text with a word that
\* several patterns match, and the word was detected
C29_Witness ==
  /\ dpc = "permuted"
  /\ detected # <<>>
  /\ \E i \in 1..Len(splitWords(text)) : Cardinality(MatchedBy(splitWords(text)[i])) >= 2

\* the precedence the claim C6 states, rule by rule
claimedNormalize(clean) ==
  IF Len(clean) = 10 /\ AllDigits(clean) /\ clean[1] \in D29 THEN <<"+", "1">> \o clean
  ELSE IF Len(clean) = 11 /\ AllDigits(clean) /\ startsWith(clean, <<"1">>) THEN <<"+">> \o clean
  ELSE IF Len(clean) = 11 /\ AllDigits(clean) /\ startsWith(clean, <<"0", "1">>)
       THEN <<"+", "8", "8", "0">> \o Tail(clean)
  ELSE IF Len(clean) = 13 /\ AllDigits(clean) /\ startsWith(clean, <<"8", "8", "0">>)
       THEN <<"+">> \o clean
  ELSE IF Len(clean) = 10 /\ AllDigits(clean) /\ clean[1] \in D69 THEN <<"+", "9", "1">> \o clean
  ELSE IF Len(clean) = 12 /\ AllDigits(clean) /\ startsWith(clean, <<"9", "1">>)
       THEN <<"+">> \o clean
  ELSE IF Len(clean) >= 10 /\ Len(clean) <= 15 THEN <<"+">> \o clean
  ELSE NULL

\* the same precedence with the Bangladesh local rule restricted to mobile prefixes 013..019
amendedNormalize(clean) ==
  IF Len(clean) = 10 /\ AllDigits(clean) /\ clean[1] \in D29 THEN <<"+", "1">> \o clean
  ELSE IF Len(clean) = 11 /\ AllDigits(clean) /\ startsWith(clean, <<"1">>) THEN <<"+">> \o clean
  ELSE IF Len(clean) = 11 /\ AllDigits(clean) /\ startsWith(clean, <<"0", "1">>)
          /\ clean[3] \in D39
       THEN <<"+", "8", "8", "0">> \o Tail(clean)
  ELSE IF Len(clean) = 13 /\ AllDigits(clean) /\ startsWith(clean, <<"8", "8", "0">>)
       THEN <<"+">> \o clean
  ELSE IF Len(clean) = 10 /\ AllDigits(clean) /\ clean[1] \in D69 THEN <<"+", "9", "1">> \o clean
  ELSE IF Len(clean) = 12 /\ AllDigits(clean) /\ startsWith(clean, <<"9", "1">>)
       THEN <<"+">> \o clean
  ELSE IF Len(clean) >= 10 /\ Len(clean) <= 15 THEN <<"+">> \o clean
  ELSE NULL

NoLeadingPlus(s) == ~startsWith(stripNonDigitPlus(s), <<"+">>)

\* C6 as stated: for every input without a leading '+', normalize gives the result of the
\* first applicable rule of the stated precedence (11 digits with leading 01 give +880...).
C6_PrecedenceAsStated ==
  (npc = "done" /\ NoLeadingPlus(raw)) => normalized = claimedNormalize(stripNonDigitPlus(raw))

\* C6 amended: the same precedence, where the Bangladesh local rule applies only to
\* 11 digits with leading 01 whose third digit is 3-9.
C6_PrecedenceAmended ==
  (npc = "done" /\ NoLeadingPlus(raw)) => normalized = amendedNormalize(stripNonDigitPlus(raw))

\* C6 witness: a Bangladesh local number has been normalized to +880 and the digits after the 0
C6_Witness ==
  /\ npc = "done"
  /\ raw = N_01712345678
  /\ normalized = <<"+", "8", "8", "0">> \o Tail(N_01712345678)

-----------------------------------------------------------------------------
(* Inputs and state machine of the matcher: one call of findAllMatchingSms *)
(* or of findMatchingSms on a record set as the upstream API returned it.  *)

MaxRecords == 2    \* most records in the upstream response
MaxDate    == 3    \* number of distinct date strings

T_BD_INTL  == <<"+", "8", "8", "0", "1", "7", "1", "2", "3", "4", "5", "6", "7", "8">>
T_BD_LOCAL == N_01712345678

M_EXACT     == <<"8", "8", "0", "1", "7", "1", "2", "3", "4", "5", "6", "7", "8">>
M_EXACT_FMT == <<"+", "8", "8", "0", "-", "1", "7", "1", "2", "3", "4", "5", "6", "7", "8">>
M_LOCAL     == N_01712345678
M_EXTRA1    == <<"1">> \o M_EXACT
M_SUFFIX10  == <<"9", "9", "1", "7", "1", "2", "3", "4", "5", "6", "7", "8">>
M_SUFFIX7   == <<"5", "5", "5", "2", "3", "4", "5", "6", "7", "8">>
M_NEAR      == <<"8", "8", "0", "1", "7", "1", "2", "3", "4", "5", "6", "7", "9">>
M_OTHER     == <<"1", "2", "3">>

SmsNumbers == { M_EXACT, M_EXACT_FMT, M_LOCAL, M_EXTRA1, M_SUFFIX10, M_SUFFIX7, M_NEAR, M_OTHER }
SmsTexts   == { <<"a">>, <<"b">> }
Targets    == { T_BD_INTL, T_BD_LOCAL }

SmsRecords == [number : SmsNumbers, date : 1..MaxDate, text : SmsTexts]

SeqsUpTo(S, n) == UNION { [1..k -> S] : k \in 0..n }

InitMatch ==
  /\ smsData \in SeqsUpTo(SmsRecords, MaxRecords)
  /\ smsData0 = smsData
  /\ phoneNumber \in Targets
  /\ matching = <<>>
  /\ found = NullSms
  /\ mpc = "start"
  /\ DetIdle /\ NormIdle /\ BotIdle /\ HandIdle /\ ExtIdle

\* findAllMatchingSms(smsData, phoneNumber): smsData.sort(...) sorts the caller's array in place
FindAll ==
  /\ mpc = "start"
  /\ smsData' = sortByDateDesc(smsData)
  /\ matching' = findAllMatchingSms(smsData, phoneNumber)
  /\ mpc' = "findAll"
  /\ UNCHANGED <<smsData0, phoneNumber, found, detVars, normVars, botVars, errVars, extVars>>

\* findMatchingSms(smsData, phoneNumber)
FindOne ==
  /\ mpc = "start"
  /\ smsData' = sortByDateDesc(smsData)
  /\ found' = findMatchingSms(smsData, phoneNumber)
  /\ mpc' = "findOne"
  /\ UNCHANGED <<smsData0, phoneNumber, matching, detVars, normVars, botVars, errVars, extVars>>

NextMatch == FindAll \/ FindOne

SpecMatch == InitMatch /\ [][NextMatch]_vars

\* findMatchingSms(smsData, phoneNumber), then findAllMatchingSms(smsData, phoneNumber) on
\* the array the first call has sorted
FindBoth ==
  /\ mpc = "start"
  /\ found' = findMatchingSms(smsData, phoneNumber)
  /\ smsData' = sortByDateDesc(smsData)
  /\ matching' = findAllMatchingSms(sortByDateDesc(smsData), phoneNumber)
  /\ mpc' = "both"
  /\ UNCHANGED <<smsData0, phoneNumber, detVars, normVars, botVars, errVars, extVars>>

NextBoth == FindBoth

SpecBoth == InitMatch /\ [][NextBoth]_vars

-----------------------------------------------------------------------------
(* State machine of the bot: each inbound event (command, text message,   *)
(* button press) is handled by one step; the clock and the store's balance *)
(* column also move from outside.                                          *)

MaxTicks   == 2          \* the clock stops after this many ticks
TickMs     == 400000     \* milliseconds per tick
MaxBalance == 50         \* highest balance the store is topped up to, in cents

AdminId == 1              \* the telegram id of the account named ADMIN_NAME
UserIds == {1, 2}
NoUser  == 0             \* a telegram id no row of the users table has
Customers == UserIds \ {AdminId}     \* the users whose balance is topped up

\* UserService.findOrCreateUser: the defaults of a new row
newUser(username) ==
  [username |-> username, isAuthorized |-> FALSE, isBanned |-> FALSE, role |-> "user",
   balance |-> 0, status |-> "pending"]

SmsArgs ==
  { <<>>, N_01712345678, <<"a", "b", "c">>, N_p1234567890 \o <<" ">> \o N_9876543210 }

ChatTexts == { <<"h", "i">>, N_p1234567890, N_p1234567890 \o <<" ">> \o N_9876543210 }

Phones == { T_BD_INTL }

\* detectPhoneNumbers on the texts the events carry
detectedIn == [t \in SmsArgs \cup ChatTexts |-> detectPhoneNumbers(t)]

Commands ==
  [cmd : {"start", "info", "balance", "profile", "mysms", "savecookie", "unknown"},
   target : {NoUser}, text : {<<>>}]
    \cup [cmd : {"authorize", "ban"}, target : UserIds \cup {NoUser}, text : {<<>>}]
    \cup [cmd : {"sms"}, target : {NoUser}, text : SmsArgs]

R_EXACT  == [number |-> M_EXACT, date |-> 1, text |-> <<"a">>]
R_LOCAL  == [number |-> M_LOCAL, date |-> 2, text |-> <<"b">>]
R_OTHER  == [number |-> M_OTHER, date |-> 1, text |-> <<"a">>]

\* what the upstream API answers to one request
Upstream ==
  [resp : {"401", "403", "500", "networkError", "notArray"}, data : {<<>>}]
    \cup [resp : {"records"}, data : { <<R_EXACT>>, <<R_OTHER, R_LOCAL>>, <<R_OTHER>> }]

\* the outcomes of the storage read that follows the payment
Lookups == {"ok", "throws"}

InitBot ==
  /\ users = [u \in UserIds |-> newUser(IF u = AdminId THEN ADMIN_NAME ELSE "someone")]
  /\ cookieJar = "none"
  /\ cmdRequests = <<>>
  /\ botRequests = <<>>
  /\ now = 0
  /\ lastEvent = NoEvent
  /\ lastCheck = NoCheck
  /\ DetIdle /\ NormIdle /\ MatIdle /\ HandIdle /\ ExtIdle

event(kind, u, name, txt, server, reply, listed) ==
  [kind |-> kind, user |-> u, name |-> name, text |-> txt, server |-> server,
   reply |-> reply, listed |-> listed]

\* CommandController.handleSmsCommand: the reply, and whether the request is registered
handleSmsCommand(user, txt) ==
  LET phoneNumbers == detectedIn[txt] IN
  IF txt = <<>> THEN "smsHelp"
  ELSE IF Len(phoneNumbers) = 0 THEN "invalidPhoneNumber"
  ELSE IF Len(phoneNumbers) > 1 THEN "oneNumberAtATime"
  ELSE IF user.balance < SMS_PRICE THEN "insufficientBalance"
  ELSE IF requestSmsThrows(defaultServer) THEN "failedToProcess"
  ELSE "smsInitiated"

\* CommandController.handleAuthorizeCommand
handleAuthorizeCommand(usrs, user, tgt) ==
  IF ~isAdmin(user) THEN "adminOnly"
  ELSE IF tgt \notin DOMAIN usrs THEN "userNotFound"
  ELSE IF usrs[tgt].isAuthorized THEN "alreadyAuthorized"
  ELSE "authorized"

\* CommandController.handleBanCommand
handleBanCommand(usrs, user, tgt) ==
  IF ~isAdmin(user) THEN "adminOnly"
  ELSE IF tgt \notin DOMAIN usrs THEN "userNotFound"
  ELSE IF usrs[tgt].isBanned THEN "alreadyBanned"
  ELSE "banned!"

\* CommandController.handleSaveCookieCommand
handleSaveCookieCommand(user) == IF ~isAdmin(user) THEN "adminOnly" ELSE "cookiesSaved"

\* CommandController.handleCommand
HandleCommand(u, c) ==
  LET user   == users[u]
      access == checkAccess(c.cmd, user)
      reply  ==
        IF access # "ok" THEN access
        ELSE CASE c.cmd = "authorize"  -> handleAuthorizeCommand(users, user, c.target)
               [] c.cmd = "ban"        -> handleBanCommand(users, user, c.target)
               [] c.cmd = "savecookie" -> handleSaveCookieCommand(user)
               [] c.cmd = "sms"        -> handleSmsCommand(user, c.text)
               [] OTHER                -> c.cmd
      listed ==
        IF access = "ok" /\ c.cmd = "mysms"
        THEN { k[1] : k \in getUserActiveSmsRequests(cmdRequests, u, now) }
        ELSE {}
  IN
  /\ users' = CASE reply = "authorized" -> [users EXCEPT ![c.target] = authorize(users[c.target])]
                [] reply = "banned!"    -> [users EXCEPT ![c.target] = ban(users[c.target])]
                [] OTHER                -> users
  /\ cookieJar' = IF reply = "cookiesSaved" THEN "active" ELSE cookieJar
  /\ cmdRequests' =
       IF reply = "smsInitiated"
       THEN requestSms(cmdRequests, u, detectedIn[c.text][1], defaultServer, now)
       ELSE cmdRequests
  /\ lastEvent' = event("command", u, c.cmd, c.text, "none", reply, listed)
  /\ lastCheck' = NoCheck
  /\ UNCHANGED <<botRequests, now, detVars, normVars, matVars, errVars, extVars>>

\* MessageController.handleTextMessage
HandleTextMessage(u, txt) ==
  LET user == users[u]
      phoneNumbers == detectedIn[txt]
      reply ==
        IF ~user.isAuthorized THEN (IF user.isBanned THEN "accountBanned" ELSE "accessRequired")
        ELSE IF Len(phoneNumbers) = 1
             THEN (IF user.balance < SMS_PRICE THEN "insufficientBalance" ELSE "phoneSelection")
        ELSE IF Len(phoneNumbers) > 1 THEN "multipleNumbers"
        ELSE "messageReceived"
  IN
  /\ lastEvent' = event("text", u, "text", txt, "none", reply, {})
  /\ lastCheck' = NoCheck
  /\ UNCHANGED <<users, cookieJar, cmdRequests, botRequests, now, detVars, normVars, matVars, errVars, extVars>>

\* MessageController.handleCallbackQuery for the buttons sms_server1_<number>,
\* sms_server2_<number> and sms_refresh_<server>_<number>, which all run
\* processPhoneNumberWithServer: requestSmsWithServer, then checkSmsViaApiWithServer
HandleSmsButton(u, pn, server, up, lookup) ==
  LET user == users[u]
      registered == requestSms(botRequests, u, pn, server, now)
      out == checkSmsViaApi(registered, users, cookieJar, now, pn, server, up.resp, up.data,
                            lookup)
  IN
  IF ~user.isAuthorized
  THEN /\ lastEvent' = event("callback", u, "sms", pn, server, "unauthorized", {})
       /\ lastCheck' = NoCheck
       /\ UNCHANGED <<users, cookieJar, cmdRequests, botRequests, now, detVars, normVars, matVars, errVars, extVars>>
  ELSE IF requestSmsThrows(server)
  THEN /\ lastEvent' = event("callback", u, "sms", pn, server, "failedToProcess", {})
       /\ lastCheck' = NoCheck
       /\ UNCHANGED <<users, cookieJar, cmdRequests, botRequests, now, detVars, normVars, matVars, errVars, extVars>>
  ELSE /\ botRequests' = out.requests
       /\ users' = out.users
       /\ lastCheck' = out.check
       /\ lastEvent' = event("callback", u, "sms", pn, server, "smsResults", {})
       /\ UNCHANGED <<cookieJar, cmdRequests, now, detVars, normVars, matVars, errVars, extVars>>

\* MessageController.handleCallbackQuery for sms_cancel and the menu buttons that only reply
HandleMenuButton(u, data) ==
  /\ lastEvent' = event("callback", u, data, <<>>, "none",
                        IF ~users[u].isAuthorized THEN "unauthorized" ELSE data, {})
  /\ lastCheck' = NoCheck
  /\ UNCHANGED <<users, cookieJar, cmdRequests, botRequests, now, detVars, normVars, matVars, errVars, extVars>>

\* the clock
Tick ==
  /\ now < MaxTicks * TickMs
  /\ now' = now + TickMs
  /\ lastEvent' = NoEvent
  /\ lastCheck' = NoCheck
  /\ UNCHANGED <<users, cookieJar, cmdRequests, botRequests, detVars, normVars, matVars, errVars, extVars>>

\* UserService.addBalance / User.addBalance: a top-up of the price of one SMS
AddBalance(u) ==
  /\ users[u].balance + SMS_PRICE <= MaxBalance
  /\ users' = [users EXCEPT ![u].balance = users[u].balance + SMS_PRICE]
  /\ lastEvent' = NoEvent
  /\ lastCheck' = NoCheck
  /\ UNCHANGED <<cookieJar, cmdRequests, botRequests, now, detVars, normVars, matVars, errVars, extVars>>

NextBot ==
  \/ \E u \in UserIds, c \in Commands : HandleCommand(u, c)
  \/ \E u \in UserIds, txt \in ChatTexts : HandleTextMessage(u, txt)
  \/ \E u \in UserIds, pn \in Phones, server \in {SERVER_1, SERVER_2}, up \in Upstream,
          lookup \in Lookups :
       HandleSmsButton(u, pn, server, up, lookup)
  \/ \E u \in UserIds, data \in {"sms_cancel", "check_balance"} : HandleMenuButton(u, data)
  \/ Tick
  \/ \E u \in Customers : AddBalance(u)

SpecBot == InitBot /\ [][NextBot]_vars

-----------------------------------------------------------------------------
(* The SMS service on its own: the public methods of SmsService, called in  *)
(* any order by a client of the service.                                    *)

\* SmsService.requestSmsWithServer
SvcRequestSms(u, pn, server) ==
  /\ botRequests' = IF requestSmsThrows(server) THEN botRequests
                    ELSE requestSms(botRequests, u, pn, server, now)
  /\ lastEvent' = event("request", u, "requestSms", pn, server,
                        IF requestSmsThrows(server) THEN "thrown" ELSE "pending", {})
  /\ lastCheck' = NoCheck
  /\ UNCHANGED <<users, cookieJar, cmdRequests, now, detVars, normVars, matVars, errVars, extVars>>

\* SmsService.checkSmsViaApiWithServer
SvcCheckSms(pn, server, up, lookup) ==
  LET out == checkSmsViaApi(botRequests, users, cookieJar, now, pn, server, up.resp, up.data,
                            lookup)
  IN
  /\ botRequests' = out.requests
  /\ users' = out.users
  /\ lastCheck' = out.check
  /\ lastEvent' = event("check", NoUser, "checkSmsViaApi", pn, server, out.check.message, {})
  /\ UNCHANGED <<cookieJar, cmdRequests, now, detVars, normVars, matVars, errVars, extVars>>

\* SmsService.getUserActiveSmsRequests
SvcActiveRequests(u) ==
  /\ lastEvent' = event("list", u, "getUserActiveSmsRequests", <<>>, "none", "listed",
                        { k[1] : k \in getUserActiveSmsRequests(botRequests, u, now) })
  /\ lastCheck' = NoCheck
  /\ UNCHANGED <<users, cookieJar, cmdRequests, botRequests, now, detVars, normVars, matVars,
                 errVars, extVars>>

\* SmsService.saveCookies
SvcSaveCookies ==
  /\ cookieJar' = "active"
  /\ lastEvent' = NoEvent
  /\ lastCheck' = NoCheck
  /\ UNCHANGED <<users, cmdRequests, botRequests, now, detVars, normVars, matVars, errVars, extVars>>

NextService ==
  \/ \E u \in UserIds, pn \in Phones, server \in {SERVER_1, SERVER_2} : SvcRequestSms(u, pn, server)
  \/ \E pn \in Phones, server \in {SERVER_1, SERVER_2}, up \in Upstream, lookup \in Lookups :
       SvcCheckSms(pn, server, up, lookup)
  \/ \E u \in UserIds : SvcActiveRequests(u)
  \/ SvcSaveCookies
  \/ Tick
  \/ \E u \in Customers : AddBalance(u)

SpecService == InitBot /\ [][NextService]_vars

-----------------------------------------------------------------------------
(* Handling one inbound event when the storage and HTTP calls it awaits can *)
(* fail.  Each awaited call is one step; its outcome is drawn when it runs. *)

\* error.message.includes('Transaction cannot be committed')
TX_ERROR == "Transaction cannot be committed"

HandledCommands ==
  {"start", "info", "balance", "profile", "authorize", "ban", "savecookie", "sms", "mysms",
   "unknown"}

InboundEvents ==
  [kind : {"command"}, cmd : HandledCommands]
    \cup [kind : {"text", "callback"}, cmd : {"none"}]

\* the handlers whose storage calls sit inside a try/catch of their own: the admin and
\* SMS commands, and processPhoneNumberWithServer behind the SMS buttons
hasInnerCatch(kind, cmd) ==
  \/ kind = "callback"
  \/ kind = "command" /\ cmd \in {"authorize", "ban", "savecookie", "sms", "mysms"}

\* the handlers that call the store after findOrCreateUser (saveMessage for a text)
hasBodyStorage(kind, cmd) == kind = "text" \/ hasInnerCatch(kind, cmd)

InitHandle ==
  /\ handling = NoHandling
  /\ DetIdle /\ NormIdle /\ MatIdle /\ BotIdle /\ ExtIdle

\* Bot.setupEventHandlers: the listener calls the controller's handler
Receive(e) ==
  /\ handling.pc \in {"idle", "returned"}
  /\ handling' = [kind |-> e.kind, cmd |-> e.cmd, pc |-> "findUser", caught |-> "none",
                  replies |-> 0, failed |-> FALSE]
  /\ UNCHANGED <<detVars, normVars, matVars, botVars, extVars>>

\* const user = await this.userService.findOrCreateUser(...)
FindUser(outcome) ==
  /\ handling.pc = "findUser"
  /\ handling' = IF outcome = "ok" THEN [handling EXCEPT !.pc = "body"]
                 ELSE [handling EXCEPT !.pc = "catch", !.caught = outcome, !.failed = TRUE]
  /\ UNCHANGED <<detVars, normVars, matVars, botVars, extVars>>

\* the rest of the try block: the access check, the handler's storage calls and its reply
Body(outcome) ==
  /\ handling.pc = "body"
  /\ outcome \in {TX_ERROR, "storage"} => hasBodyStorage(handling.kind, handling.cmd)
  /\ handling' =
       CASE outcome = "ok"   -> [handling EXCEPT !.pc = "returned", !.replies = @ + 1]
         [] outcome = "http" -> [handling EXCEPT !.pc = "catch", !.caught = "http",
                                                 !.failed = TRUE]
         [] OTHER ->
              IF hasInnerCatch(handling.kind, handling.cmd)
              THEN [handling EXCEPT !.pc = "innerCatch", !.caught = outcome, !.failed = TRUE]
              ELSE [handling EXCEPT !.pc = "catch", !.caught = outcome, !.failed = TRUE]
  /\ UNCHANGED <<detVars, normVars, matVars, botVars, extVars>>

\* the catch of a command handler or of processPhoneNumberWithServer: it sends the error text
InnerCatch(outcome) ==
  /\ handling.pc = "innerCatch"
  /\ handling' = IF outcome = "ok"
                 THEN [handling EXCEPT !.pc = "returned", !.replies = @ + 1]
                 ELSE [handling EXCEPT !.pc = "catch", !.caught = "http"]
  /\ UNCHANGED <<detVars, normVars, matVars, botVars, extVars>>

\* the catch at the handler boundary: handleCommand retries on a transaction error
Catch ==
  /\ handling.pc = "catch"
  /\ handling' = IF handling.kind = "command" /\ handling.caught = TX_ERROR
                 THEN [handling EXCEPT !.pc = "retry"]
                 ELSE [handling EXCEPT !.pc = "errorReply"]
  /\ UNCHANGED <<detVars, normVars, matVars, botVars, extVars>>

\* handleCommand: findOrCreateUser once more; on success it returns
Retry(outcome) ==
  /\ handling.pc = "retry"
  /\ handling' = IF outcome = "ok" THEN [handling EXCEPT !.pc = "returned"]
                 ELSE [handling EXCEPT !.pc = "errorReply"]
  /\ UNCHANGED <<detVars, normVars, matVars, botVars, extVars>>

\* the last statement of the catch: sendMessage, or safeAnswerCallbackQuery for a callback,
\* which swallows only the "query is too old" error
ErrorReply(outcome) ==
  /\ handling.pc = "errorReply"
  /\ outcome = "tooOld" => handling.kind = "callback"
  /\ handling' =
       CASE outcome = "ok"     -> [handling EXCEPT !.pc = "returned", !.replies = @ + 1]
         [] outcome = "tooOld" -> [handling EXCEPT !.pc = "returned"]
         [] OTHER              -> [handling EXCEPT !.pc = "rejected"]
  /\ UNCHANGED <<detVars, normVars, matVars, botVars, extVars>>

\* process.on('unhandledRejection', ...) calls shutdown
UnhandledRejection ==
  /\ handling.pc = "rejected"
  /\ handling' = [handling EXCEPT !.pc = "shutdown"]
  /\ UNCHANGED <<detVars, normVars, matVars, botVars, extVars>>

NextHandle ==
  \/ \E e \in InboundEvents : Receive(e)
  \/ \E outcome \in {"ok", TX_ERROR, "storage"} : FindUser(outcome)
  \/ \E outcome \in {"ok", "http", TX_ERROR, "storage"} : Body(outcome)
  \/ \E outcome \in {"ok", "http"} : InnerCatch(outcome)
  \/ Catch
  \/ \E outcome \in {"ok", "storage"} : Retry(outcome)
  \/ \E outcome \in {"ok", "http", "tooOld"} : ErrorReply(outcome)
  \/ UnhandledRejection

SpecHandle == InitHandle /\ [][NextHandle]_vars

-----------------------------------------------------------------------------
(* Handlers whose awaits interleave on one row of the users table and on    *)
(* the registry of active requests.  Node runs one continuation at a time,  *)
(* and every await is a point where another handler's continuation may run. *)

StartBalances == {0, SMS_PRICE, 2 * SMS_PRICE}
RacePhones == { T_BD_INTL, N_p1234567890 }
FlagOps == {"ban", "unban", "authorize"}

InitRace ==
  /\ startBalance \in StartBalances
  /\ row = [newUser("someone") EXCEPT !.balance = startBalance, !.isAuthorized = TRUE,
                                      !.status = "authorized"]
  /\ activeSmsRequests = <<>>
  /\ run = [h \in Handlers |-> NoRun]
  /\ DetIdle /\ NormIdle /\ MatIdle /\ BotIdle /\ HandIdle /\ RetryIdle /\ CookieIdle

InitFlags ==
  /\ startBalance = 0
  /\ row = newUser("someone")
  /\ activeSmsRequests = <<>>
  /\ run = [h \in Handlers |-> NoRun]
  /\ DetIdle /\ NormIdle /\ MatIdle /\ BotIdle /\ HandIdle /\ RetryIdle /\ CookieIdle

\* the handlers that are between registering a request for pn and returning
workingOn(pn) ==
  { g \in Handlers : run[g].op = "check" /\ run[g].phoneNumber = pn /\ run[g].pc # "done" }

\* processPhoneNumberWithServer, up to its first await: requestSms stores a new request
\* under the key, over whatever was there
RequestSms(h, pn) ==
  /\ run[h].pc = "idle"
  /\ activeSmsRequests' =
       mapSet(activeSmsRequests, requestKey(pn, SERVER_2), [createdBy |-> h, status |-> "pending"])
  /\ run' = [run EXCEPT ![h] = [NoRun EXCEPT !.op = "check", !.pc = "requested",
                                             !.phoneNumber = pn, !.during = workingOn(pn)]]
  /\ UNCHANGED <<row, startBalance, detVars, normVars, matVars, botVars, errVars, retryVars, cookieVars>>

\* checkSmsViaApi, up to the await of fetchSmsFromRealApi: activeSmsRequests.get(requestKey)
GetRequest(h) ==
  /\ run[h].pc = "requested"
  /\ run' = [run EXCEPT ![h] =
       IF requestKey(run[h].phoneNumber, SERVER_2) \in DOMAIN activeSmsRequests
       THEN [@ EXCEPT !.pc = "fetch"]
       ELSE [@ EXCEPT !.pc = "done", !.result = "noActiveRequest"]]
  /\ UNCHANGED <<row, startBalance, activeSmsRequests, detVars, normVars, matVars, botVars,
                 errVars, retryVars, cookieVars>>

\* fetchSmsFromRealApi has resolved, with an SMS or with null; with an SMS,
\* userService.deductBalance is called and awaits User.findByPk
Fetch(h, smsResult) ==
  /\ run[h].pc = "fetch"
  /\ run' = [run EXCEPT ![h] =
       IF smsResult THEN [@ EXCEPT !.pc = "findByPk"]
       ELSE [@ EXCEPT !.pc = "done", !.result = "noSmsFound"]]
  /\ UNCHANGED <<row, startBalance, activeSmsRequests, detVars, normVars, matVars, botVars,
                 errVars, retryVars, cookieVars>>

\* UserService.addBalance, banUser, unbanUser, authorizeUser: up to the await of findByPk
Begin(h, op) ==
  /\ run[h].pc = "idle"
  /\ run' = [run EXCEPT ![h] = [NoRun EXCEPT !.op = op, !.pc = "findByPk"]]
  /\ UNCHANGED <<row, startBalance, activeSmsRequests, detVars, normVars, matVars, botVars,
                 errVars, retryVars, cookieVars>>

\* User.findByPk has resolved with an instance that holds the row as it is now; the
\* method of the instance runs up to its await of this.update.  User.deductBalance
\* returns false before that when the instance's balance is below the amount.
FindByPk(h) ==
  /\ run[h].pc = "findByPk"
  /\ run' = [run EXCEPT ![h] =
       IF run[h].op = "check" /\ ~canDeduct(row, SMS_PRICE)
       THEN [@ EXCEPT !.user = row, !.pc = "done", !.result = "insufficientBalance"]
       ELSE [@ EXCEPT !.user = row, !.pc = "update"]]
  /\ UNCHANGED <<row, startBalance, activeSmsRequests, detVars, normVars, matVars, botVars,
                 errVars, retryVars, cookieVars>>

\* what this.update({...}) stores: the named fields, computed from the instance
updateOf(op, user, stored) ==
  CASE op = "check"     -> [stored EXCEPT !.balance = deductBalance(user, SMS_PRICE).balance]
    [] op = "topup"     -> [stored EXCEPT !.balance = user.balance + SMS_PRICE]
    [] op = "ban"       -> [stored EXCEPT !.isBanned = TRUE, !.status = ban(user).status]
    [] op = "unban"     -> [stored EXCEPT !.isBanned = FALSE, !.status = unban(user).status]
    [] op = "authorize" -> [stored EXCEPT !.isAuthorized = TRUE,
                                          !.status = authorize(user).status]

\* this.update has stored its fields
Update(h) ==
  /\ run[h].pc = "update"
  /\ row' = updateOf(run[h].op, run[h].user, row)
  /\ run' = [run EXCEPT ![h] =
       IF run[h].op = "check" THEN [@ EXCEPT !.paid = TRUE, !.pc = "getUserById"]
       ELSE [@ EXCEPT !.paid = TRUE, !.pc = "done", !.result = run[h].op]]
  /\ UNCHANGED <<startBalance, activeSmsRequests, detVars, normVars, matVars, botVars, errVars, retryVars, cookieVars>>

\* checkSmsViaApi after the payment: the status of the request is set, getUserById and
\* the monitoring call are awaited, the key is deleted and the charge is reported; when
\* getUserById throws, the catch reports an error and the key stays
Finish(h, lookup) ==
  LET key == requestKey(run[h].phoneNumber, SERVER_2) IN
  /\ run[h].pc = "getUserById"
  /\ activeSmsRequests' =
       IF lookup = "throws"
       THEN (IF key \in DOMAIN activeSmsRequests
             THEN [activeSmsRequests EXCEPT ![key].status = "received"]
             ELSE activeSmsRequests)
       ELSE mapDelete(activeSmsRequests, key)
  /\ run' = [run EXCEPT ![h] =
       [@ EXCEPT !.pc = "done",
                 !.result = IF lookup = "throws" THEN "errorTryAgain" ELSE "received"]]
  /\ UNCHANGED <<row, startBalance, detVars, normVars, matVars, botVars, errVars, retryVars, cookieVars>>

\* the handler has returned and the next event is handled
Return(h) ==
  /\ run[h].pc = "done"
  /\ run' = [run EXCEPT ![h] = NoRun]
  /\ UNCHANGED <<row, startBalance, activeSmsRequests, detVars, normVars, matVars, botVars,
                 errVars, retryVars, cookieVars>>

NextRace ==
  \/ \E h \in Handlers, pn \in RacePhones : RequestSms(h, pn)
  \/ \E h \in Handlers : GetRequest(h)
  \/ \E h \in Handlers, smsResult \in BOOLEAN : Fetch(h, smsResult)
  \/ \E h \in Handlers : Begin(h, "topup")
  \/ \E h \in Handlers : FindByPk(h)
  \/ \E h \in Handlers : Update(h)
  \/ \E h \in Handlers, lookup \in Lookups : Finish(h, lookup)

SpecRace == InitRace /\ [][NextRace]_vars

NextFlags ==
  \/ \E h \in Handlers, op \in FlagOps : Begin(h, op)
  \/ \E h \in Handlers : FindByPk(h)
  \/ \E h \in Handlers : Update(h)
  \/ \E h \in Handlers : Return(h)

SpecFlags == InitFlags /\ [][NextFlags]_vars

-----------------------------------------------------------------------------
(* One call of a storage operation of UserService: findOrCreateUser goes     *)
(* through Utils.retry, the balance mutations are called directly.          *)

MAX_RETRIES == 3          \* Utils.retry(..., 3, 50) in findOrCreateUser
RETRY_DELAY == 50         \* milliseconds

StorageOps == {"findOrCreateUser", "deductBalance", "addBalance"}

\* the errors the storage layer raises, by error.name
StorageErrors ==
  {"SequelizeValidationError", "SequelizeConnectionError", "SequelizeTimeoutError",
   "SequelizeDatabaseError", "SequelizeUniqueConstraintError"}

\* Utils.retry: the errors that are rethrown at once
dontRetry(error) == error \in {"SequelizeValidationError", "SequelizeConnectionError"}

\* faulty variant of the wait: no backoff
backoffConstant(delay, attempt) == delay

\* delay * Math.pow(2, attempt - 1)
backoff(delay, attempt) == delay * 2 ^ (attempt - 1)

\* only findOrCreateUser wraps its body in Utils.retry
retried(op) == op = "findOrCreateUser"

InitRetry ==
  /\ retrying = NoRetrying
  /\ DetIdle /\ NormIdle /\ MatIdle /\ BotIdle /\ HandIdle /\ StoreIdle /\ CookieIdle

\* the operation is called: attempt = 1
Call(op) ==
  /\ retrying.pc = "idle"
  /\ retrying' = [NoRetrying EXCEPT !.op = op, !.pc = "attempt", !.attempt = 1]
  /\ UNCHANGED <<detVars, normVars, matVars, botVars, errVars, storeVars, cookieVars>>

\* await operation() has settled
Attempt(outcome) ==
  /\ retrying.pc = "attempt"
  /\ retrying' =
       IF outcome = "ok" THEN [retrying EXCEPT !.pc = "returned"]
       ELSE IF ~retried(retrying.op) \/ dontRetry(outcome)
                 \/ retrying.attempt = MAX_RETRIES
       THEN [retrying EXCEPT !.pc = "thrown", !.thrown = outcome,
                             !.errors = Append(@, outcome)]
       ELSE [retrying EXCEPT !.pc = "sleeping", !.errors = Append(@, outcome)]
  /\ UNCHANGED <<detVars, normVars, matVars, botVars, errVars, storeVars, cookieVars>>

\* await Utils.sleep(delay * Math.pow(2, attempt - 1)), then the next attempt
Sleep ==
  /\ retrying.pc = "sleeping"
  /\ retrying' = [retrying EXCEPT !.pc = "attempt", !.attempt = @ + 1,
                                  !.slept = Append(@, backoff(RETRY_DELAY, retrying.attempt))]
  /\ UNCHANGED <<detVars, normVars, matVars, botVars, errVars, storeVars, cookieVars>>

NextRetry ==
  \/ \E op \in StorageOps : Call(op)
  \/ \E outcome \in {"ok"} \cup StorageErrors : Attempt(outcome)
  \/ Sleep

SpecRetry == InitRetry /\ [][NextRetry]_vars

-----------------------------------------------------------------------------
(* CookieService: a cookie string is saved into the cookies table of one    *)
(* domain and read back.                                                    *)

\* s.split(c) for a one-character separator
RECURSIVE splitOn(_, _, _, _, _)
splitOn(s, c, i, cur, acc) ==
  IF i > Len(s) THEN Append(acc, cur)
  ELSE IF s[i] = c THEN splitOn(s, c, i + 1, <<>>, Append(acc, cur))
  ELSE splitOn(s, c, i + 1, Append(cur, s[i]), acc)

\* s.trim()
RECURSIVE trim(_)
trim(s) ==
  IF s = <<>> THEN s
  ELSE IF Head(s) \in WS THEN trim(Tail(s))
  ELSE IF s[Len(s)] \in WS THEN trim(SubSeq(s, 1, Len(s) - 1))
  ELSE s

\* s.split(c, limit): the first limit pieces of s.split(c)
splitLimit(s, c, limit) ==
  LET pieces == splitOn(s, c, 1, <<>>, <<>>)
  IN SubSeq(pieces, 1, IF Len(pieces) < limit THEN Len(pieces) ELSE limit)

\* separators.join
RECURSIVE join(_, _)
join(list, sep) ==
  IF list = <<>> THEN <<>>
  ELSE IF Len(list) = 1 THEN list[1]
  ELSE list[1] \o sep \o join(Tail(list), sep)

\* CookieService.saveCookie: findOrCreate by name and domain, update of the value otherwise
saveCookie(table, name, value) ==
  IF \E i \in 1..Len(table) : table[i].name = name
  THEN [i \in 1..Len(table) |->
          IF table[i].name = name THEN [table[i] EXCEPT !.value = value] ELSE table[i]]
  ELSE Append(table, [name |-> name, value |-> value])

\* the loop of saveCookiesFromString over cookieString.split(';')
RECURSIVE saveParts(_, _, _)
saveParts(cookieParts, i, table) ==
  IF i > Len(cookieParts) THEN table
  ELSE LET trimmed == trim(cookieParts[i])
           pair == splitLimit(trimmed, "=", 2)
       IN IF trimmed = <<>> THEN saveParts(cookieParts, i + 1, table)
          ELSE IF Len(pair) = 2 /\ pair[1] # <<>> /\ pair[2] # <<>>
          THEN saveParts(cookieParts, i + 1, saveCookie(table, trim(pair[1]), trim(pair[2])))
          ELSE saveParts(cookieParts, i + 1, table)

saveCookiesFromString(str, table) == saveParts(splitOn(str, ";", 1, <<>>, <<>>), 1, table)

\* Cookie.getFormattedCookie
getFormattedCookie(cookie) == cookie.name \o <<"=">> \o cookie.value

\* CookieService.getCookieString
getCookieString(table) ==
  join([i \in 1..Len(table) |-> getFormattedCookie(table[i])], <<";", " ">>)

CookieNames  == { <<"s", "i", "d">>, <<"t">>, <<"u">> }
CookieValues == { <<"x">>, <<"x", "y">>, <<"x", "=", "y">>, <<"x", "y", "=", "=">> }
CookiePairs  == { n \o <<"=">> \o v : n \in CookieNames, v \in CookieValues }

\* one cookie, or two cookies with different names
CookieStrings ==
  CookiePairs \cup
  UNION { { n \o <<"=">> \o v \o <<";", " ">> \o m \o <<"=">> \o w :
              m \in CookieNames \ {n}, v \in CookieValues, w \in CookieValues } :
          n \in CookieNames }

InitCookie ==
  /\ cookieString \in CookieStrings
  /\ cookieTable = <<>>
  /\ cookieHeader = <<>>
  /\ cpc = "start"
  /\ DetIdle /\ NormIdle /\ MatIdle /\ BotIdle /\ HandIdle /\ StoreIdle /\ RetryIdle

SaveCookies ==
  /\ cpc = "start"
  /\ cookieTable' = saveCookiesFromString(cookieString, cookieTable)
  /\ cpc' = "saved"
  /\ UNCHANGED <<cookieString, cookieHeader, detVars, normVars, matVars, botVars, errVars,
                 storeVars, retryVars>>

ReadCookies ==
  /\ cpc = "saved"
  /\ cookieHeader' = getCookieString(cookieTable)
  /\ cpc' = "read"
  /\ UNCHANGED <<cookieString, cookieTable, detVars, normVars, matVars, botVars, errVars,
                 storeVars, retryVars>>

NextCookie == SaveCookies \/ ReadCookies

SpecCookie == InitCookie /\ [][NextCookie]_vars

-----------------------------------------------------------------------------
(* Claims about the matcher *)

Range(f) == { f[i] : i \in DOMAIN f }

target == digitsOnly(phoneNumber)

ExactRecords == { r \in Range(smsData0) : digitsOnly(r.number) = target }

\* a ends with b and has k more digits in front
ExtraLeading(a, b, k) == Len(a) = Len(b) + k /\ SubSeq(a, k + 1, Len(a)) = b

\* the record's number and the target differ only by 1 to 3 leading digits on either side
PrefixDiffers(r) ==
  LET n == digitsOnly(r.number)
      t == target
  IN \E k \in 1..3 : ExtraLeading(n, t, k) \/ ExtraLeading(t, n, k)

\* the record's number and the target have their last n digits in common, for an n in 7..10
CommonSuffix(r) ==
  LET d == digitsOnly(r.number)
      t == target
  IN \E n \in 7..10 : Len(d) >= n /\ Len(t) >= n /\ sliceLast(d, n) = sliceLast(t, n)

PrefixRecords == { r \in Range(smsData0) : PrefixDiffers(r) }
SuffixRecords == { r \in Range(smsData0) : CommonSuffix(r) }
SuffixOnlyRecords == (SuffixRecords \ PrefixRecords) \ ExactRecords

\* C1: when some record matches the target exactly, findAll returns exactly the
\* exactly-matching records, and none that matches only by country code or by suffix.
C1_ExactOnly ==
  mpc = "findAll" =>
    LET exact == ExactRecords
    IN exact # {} => Range(matching) = exact

\* C1 witness: findAll ran on a set holding an exact match and a record that matches
\* the target only by suffix, and returned the exact match alone
C1_Witness ==
  /\ mpc = "findAll"
  /\ ExactRecords # {}
  /\ SuffixOnlyRecords # {}
  /\ Range(matching) = ExactRecords

\* C2 as stated: an exact match does not skip strategy 2, whose matches are accumulated
\* into the result together with the exact ones.
C2_Strategy2Accumulated ==
  (mpc = "findAll" /\ ExactRecords # {}) => PrefixRecords \subseteq Range(matching)

\* C2 amended: the result of findAll holds the matches of the first strategy that matches
\* any record: an exact match skips strategies 2 and 3, strategy 2 runs only when
\* strategy 1 matched nothing, and strategy 3 only when strategies 1 and 2 matched nothing.
C2_FirstStrategyOnly ==
  mpc = "findAll" =>
    LET exact  == ExactRecords
        prefix == PrefixRecords
    IN Range(matching) =
         (IF exact # {} THEN exact
          ELSE IF prefix # {} THEN prefix
          ELSE SuffixRecords)

\* C2 witness: findAll ran on a set holding an exact match and a record that differs from
\* the target by a country code, and the latter is not in the result
C2_Witness ==
  /\ mpc = "findAll"
  /\ ExactRecords # {}
  /\ PrefixRecords \ ExactRecords # {}
  /\ (PrefixRecords \ ExactRecords) \cap Range(matching) = {}

\* C3: with no exact match and a record that differs from the target only by 1 to 3
\* leading digits, findAll returns that record and no record that matches only by suffix.
C3_CountryCodeThenStop ==
  mpc = "findAll" =>
    LET prefix == PrefixRecords
    IN (ExactRecords = {} /\ prefix # {}) =>
         /\ prefix \subseteq Range(matching)
         /\ Range(matching) \cap (SuffixRecords \ prefix) = {}

\* C3 witness: no exact match, one record differing by a country code and one matching
\* only by suffix; findAll returned the former
C3_Witness ==
  /\ mpc = "findAll"
  /\ ExactRecords = {}
  /\ PrefixRecords # {}
  /\ SuffixOnlyRecords # {}
  /\ Range(matching) = PrefixRecords

\* C7: findAll and findOne leave the caller's record sequence as it was: the same
\* records in the same order.
C7_InputUnchanged ==
  mpc \in {"findAll", "findOne"} => smsData = smsData0

\* C16: findAll never returns two records with the same (number, date, text) triple.
C16_NoDuplicateTriples ==
  mpc = "findAll" =>
    \A i, j \in 1..Len(matching) :
      i < j => ~( /\ matching[i].number = matching[j].number
                  /\ matching[i].date = matching[j].date
                  /\ matching[i].text = matching[j].text )

\* C16 witness: the record set held the same matching record twice and findAll returned it once
C16_Witness ==
  /\ mpc = "findAll"
  /\ Len(smsData0) = 2
  /\ smsData0[1] = smsData0[2]
  /\ Len(matching) = 1
  /\ matching[1] = smsData0[1]

\* C17: the result of findAll is sorted by timestamp, newest first.
C17_SortedDescending ==
  mpc = "findAll" =>
    \A i \in 1..(Len(matching) - 1) : getTime(matching[i].date) >= getTime(matching[i + 1].date)

\* C17 witness: two matching records arrived oldest first and were returned newest first
C17_Witness ==
  /\ mpc = "findAll"
  /\ Len(matching) = 2
  /\ getTime(matching[1].date) > getTime(matching[2].date)
  /\ smsData0 = <<matching[2], matching[1]>>

\* the share of positions, counted from the end, at which a and b hold the same digit is
\* above 0.85 of the longer length
SuffixAlignedSimilar(a, b) ==
  LET shorter == IF Len(a) < Len(b) THEN Len(a) ELSE Len(b)
      longer  == IF Len(a) < Len(b) THEN Len(b) ELSE Len(a)
      same    == { i \in 0..(shorter - 1) : a[Len(a) - i] = b[Len(b) - i] }
  IN longer = 0 \/ Cardinality(same) * 100 > 85 * longer

FuzzyRecords == { r \in Range(smsData0) : SuffixAlignedSimilar(target, digitsOnly(r.number)) }

\* the matches of the first of the four strategies that matches any record
FirstMatching ==
  LET exact  == ExactRecords
      prefix == PrefixRecords
      suffix == SuffixRecords
  IN IF exact # {} THEN exact
     ELSE IF prefix # {} THEN prefix
     ELSE IF suffix # {} THEN suffix
     ELSE FuzzyRecords

\* C20: findOne returns a most recent record of the first strategy (exact, country code,
\* suffix, then fuzzy) that matches any record, and null exactly when none of them does.
C20_FindOneFirstStrategy ==
  mpc = "findOne" =>
    LET first == FirstMatching
    IN IF first = {} THEN found = NullSms
       ELSE /\ found \in first
            /\ \A r \in first : getTime(found.date) >= getTime(r.date)

\* C20 witness: only the fuzzy strategy matched, and findOne returned the newer of two
\* fuzzy matches that arrived oldest first
C20_Witness ==
  /\ mpc = "findOne"
  /\ ExactRecords = {} /\ PrefixRecords = {} /\ SuffixRecords = {}
  /\ Len(smsData0) = 2
  /\ Range(smsData0) \subseteq FuzzyRecords
  /\ getTime(smsData0[1].date) < getTime(smsData0[2].date)
  /\ found = smsData0[2]

\* C28: the single-match path agrees with the primary path: when findAll returns a
\* non-empty sequence findOne returns its first element, and when findOne returns null
\* findAll returns an empty sequence.
C28_FindOneIsFirstOfFindAll ==
  mpc = "both" =>
    /\ matching # <<>> => found = matching[1]
    /\ found = NullSms => matching = <<>>

\* C28 witness: two different matching records arrived oldest first; findAll returned
\* both and findOne returned the first of them
C28_Witness ==
  /\ mpc = "both"
  /\ Len(smsData0) = 2 /\ Len(matching) = 2
  /\ getTime(smsData0[1].date) < getTime(smsData0[2].date)
  /\ matching[1] = smsData0[2]
  /\ found = matching[1]

-----------------------------------------------------------------------------
(* Claims about the bot *)

Restricted(user) == user.isBanned \/ ~user.isAuthorized

Refusals == {"banned", "unauthorized", "adminOnly", "accountBanned", "accessRequired"}

\* the event handled by this step is a command other than /start and /info, a text
\* message holding a phone number, or an SMS button press
GuardedEvent(e) ==
  \/ e.kind = "command" /\ e.name \notin {"start", "info"}
  \/ e.kind = "text" /\ Len(detectedIn[e.text]) > 0
  \/ e.kind = "callback" /\ e.name = "sms"

\* C8: an event of a banned or unauthorized user, other than /start and /info, is
\* refused and starts no SMS request and no admin action (authorize, ban, cookies).
C8_RestrictedUsersRefused ==
  [][ \A u \in UserIds :
        (lastEvent'.user = u /\ GuardedEvent(lastEvent') /\ Restricted(users[u]))
          => /\ lastEvent'.reply \in Refusals
             /\ UNCHANGED <<users, cookieJar, cmdRequests, botRequests>> ]_vars

\* C9: after an authorized, non-banned user with a balance of at least 0.50 sends /sms
\* with exactly one valid number, a pending request with a 10-minute expiry exists for that
\* user and number, and /mysms lists the user's pending, unexpired requests.
C9_SmsCommandRegisters ==
  [][ \A u \in UserIds :
        /\ ( /\ lastEvent'.kind = "command" /\ lastEvent'.name = "sms" /\ lastEvent'.user = u
             /\ ~Restricted(users[u]) /\ users[u].balance >= SMS_PRICE
             /\ Len(detectedIn[lastEvent'.text]) = 1 )
           => \E k \in DOMAIN cmdRequests' :
                /\ k[1] = detectedIn[lastEvent'.text][1]
                /\ cmdRequests'[k].userId = u
                /\ cmdRequests'[k].status = "pending"
                /\ cmdRequests'[k].expiresAt = now + SMS_TTL
        /\ ( /\ lastEvent'.kind = "command" /\ lastEvent'.name = "mysms" /\ lastEvent'.user = u
             /\ ~Restricted(users[u]) )
           => lastEvent'.listed =
                { k[1] : k \in { q \in DOMAIN cmdRequests' :
                                   /\ cmdRequests'[q].userId = u
                                   /\ cmdRequests'[q].status = "pending"
                                   /\ cmdRequests'[q].expiresAt > now } } ]_vars

\* C10: an upstream failure during a check reaches the user as the message of its class,
\* after a single attempt: missing cookies or a 401/403 give the "authentication required"
\* message, any other non-2xx response the generic "try again" message.
C10_UpstreamFailureMessages ==
  /\ lastCheck.upstream \in {"noCookies", "401", "403"} => lastCheck.message = "authRequired"
  /\ lastCheck.upstream = "500" => lastCheck.message = "errorTryAgain"
  /\ lastCheck.fetches <= 1

-----------------------------------------------------------------------------
(* Claims about failures while an event is handled *)

\* C11: a command whose handling failed with a storage or HTTP error has ended with a
\* chat reply to the sender.
C11_FailedCommandReplied ==
  (handling.kind = "command" /\ handling.failed /\ handling.pc \in {"returned", "shutdown"})
    => handling.replies > 0

\* C12: the handler's promise never rejects, so handling an event never reaches the
\* process-level unhandledRejection shutdown.
C12_NeverRejects == handling.pc \notin {"rejected", "shutdown"}

-----------------------------------------------------------------------------
(* Claims about the SMS service *)

\* the request that a check of (pn, server) reads is past its expiry time
ExpiredAt(requests, pn, server, t) ==
  /\ requestKey(pn, server) \in DOMAIN requests
  /\ requests[requestKey(pn, server)].expiresAt < t

\* C13: expiry is polled.  Only a request or a check changes the registry, a
\* registered request is pending until a check reads it, and a check of a request past
\* its expiry time marks it expired, removes it and fails without a fetch and without a
\* balance change.
C13_ExpiryPolled ==
  [][ /\ lastEvent'.kind \notin {"request", "check"} => UNCHANGED botRequests
      /\ lastEvent'.kind # "check" =>
            \A k \in DOMAIN botRequests' :
              \/ botRequests'[k].status = "pending"
              \/ k \in DOMAIN botRequests /\ botRequests'[k] = botRequests[k]
      /\ (lastEvent'.kind = "check"
            /\ ExpiredAt(botRequests, lastEvent'.text, lastEvent'.server, now))
           => /\ requestKey(lastEvent'.text, lastEvent'.server) \notin DOMAIN botRequests'
              /\ lastCheck'.requestStatus = "expired"
              /\ ~lastCheck'.success
              /\ lastCheck'.message = "expired"
              /\ lastCheck'.fetches = 0
              /\ UNCHANGED users ]_vars

\* C13 witness: a check has found a request past its expiry time, after the owner could pay
C13_Witness ==
  /\ lastEvent.kind = "check"
  /\ lastCheck.message = "expired"
  /\ lastCheck.requestStatus = "expired"
  /\ botRequests = <<>>
  /\ cookieJar = "active"
  /\ \E u \in Customers : users[u].balance >= SMS_PRICE

\* the balance a check of (pn, server) is paid from, and its owner
Payer(requests, pn, server) == requests[requestKey(pn, server)].userId

\* C21: a check changes a balance if and only if it returns success with charged = true,
\* and then it takes exactly the price of one SMS from the requester and nothing from
\* anyone else; every check that returns a failure leaves all balances as they were.
C21_BalanceChangesIffCharged ==
  [][ lastEvent'.kind = "check" =>
        IF lastCheck'.success /\ lastCheck'.charged = "true"
        THEN LET uid == Payer(botRequests, lastEvent'.text, lastEvent'.server) IN
             users' = [users EXCEPT ![uid].balance = users[uid].balance - SMS_PRICE]
        ELSE UNCHANGED users ]_vars

-----------------------------------------------------------------------------
(* Claims about handlers that run concurrently *)

\* the handlers whose update was stored
Paid == { h \in Handlers : run[h].paid }

\* C23: when a number is submitted again on the same server while an earlier handler is
\* still working on that key, at most one of the two handlers takes the price.
C23_OneChargePerKey ==
  \A h \in Handlers : \A g \in run[h].during :
    ~(run[h].op = "check" /\ run[h].paid /\ run[g].op = "check" /\ run[g].paid)

\* every handler ran a check and has returned
OnlyChecksDone == \A h \in Handlers : run[h].op = "check" /\ run[h].pc = "done"

\* C24: when the concurrent checks of one user have all returned, the stored balance is
\* the starting balance less the price for every check that reported a charge, and no
\* more checks reported a charge than the starting balance covers.
C24_NoLostDeduction ==
  OnlyChecksDone =>
    LET charged == { h \in Handlers : run[h].result = "received" } IN
    /\ row.balance = startBalance - SMS_PRICE * Cardinality(charged)
    /\ SMS_PRICE * Cardinality(charged) <= startBalance

\* C26: the status field agrees with the flags in every state of every interleaving of
\* ban, unban and authorize.
C26_StatusAgreesWithFlags ==
  row.status = IF row.isBanned THEN "banned"
               ELSE IF row.isAuthorized THEN "authorized" ELSE "pending"

-----------------------------------------------------------------------------
(* Claims about retries *)

\* the waits before attempts 2 and 3
ClaimedWaits == <<50, 100>>

\* C25: user lookup/creation is attempted at least once and at most 3 times, with waits
\* of 50 ms and then 100 ms between attempts; the first success is returned after only
\* failures that allow a retry; after the third failure the last error is rethrown; a
\* validation or connection error is rethrown after the attempt that raised it; balance
\* mutations are attempted once.
C25_BoundedRetry ==
  LET r == retrying
      settled == r.pc \in {"returned", "thrown"}
      last == r.errors[Len(r.errors)]
      earlier == { r.errors[i] : i \in 1..(r.attempt - 1) }
      NotRetried == {"SequelizeValidationError", "SequelizeConnectionError"}
  IN
  /\ r.op = "findOrCreateUser" =>
       /\ r.attempt \in 1..3
       /\ r.pc \in {"attempt", "returned", "thrown"} => r.slept = SubSeq(ClaimedWaits, 1, r.attempt - 1)
       /\ settled => earlier \cap NotRetried = {}
       /\ r.pc = "returned" => Len(r.errors) = r.attempt - 1
       /\ r.pc = "thrown" =>
            /\ Len(r.errors) = r.attempt
            /\ r.thrown = last
            /\ r.attempt = 3 \/ last \in NotRetried
  /\ r.op \in {"deductBalance", "addBalance"} =>
       /\ r.attempt = 1 /\ r.slept = <<>>
       /\ r.pc = "thrown" => r.errors = <<r.thrown>>

\* C25 witness: the third attempt failed after waits of 50 and 100 ms and its error
\* was rethrown, the two earlier errors being different ones
C25_Witness ==
  /\ retrying.op = "findOrCreateUser" /\ retrying.pc = "thrown"
  /\ retrying.attempt = 3 /\ retrying.slept = <<50, 100>>
  /\ retrying.errors = <<"SequelizeTimeoutError", "SequelizeDatabaseError",
                         "SequelizeUniqueConstraintError">>
  /\ retrying.thrown = "SequelizeUniqueConstraintError"

-----------------------------------------------------------------------------
(* Claims about cookies *)

\* position of the first "=" of s, 0 when it has none
FirstEquals(s) ==
  IF \E i \in 1..Len(s) : s[i] = "=" THEN CHOOSE i \in 1..Len(s) :
       s[i] = "=" /\ \A j \in 1..(i - 1) : s[j] # "="
  ELSE 0

\* the name=value pairs of a cookie string: the name ends at the first "=", the value
\* is everything after it
PairsOf(str) ==
  LET parts == splitOn(str, ";", 1, <<>>, <<>>) IN
  { <<SubSeq(trim(parts[i]), 1, FirstEquals(trim(parts[i])) - 1),
      SubSeq(trim(parts[i]), FirstEquals(trim(parts[i])) + 1, Len(trim(parts[i])))>> :
      i \in { k \in 1..Len(parts) : FirstEquals(trim(parts[k])) > 1 } }

\* C30: saving a cookie string and reading it back gives the same name=value pairs,
\* each value complete, also when a value contains "=".
C30_CookieRoundTrip ==
  cpc = "read" => PairsOf(cookieHeader) = PairsOf(cookieString)

====
